---- MODULE Spec2Model ----
(***************************************************************************)
(* A model of the actor orchestration core of v-axion-ai                   *)
(* (src/interolog.py, src/action_registry.py, src/models/actions.py).      *)
(*                                                                         *)
(* The program is one asyncio event loop: the code between two suspension  *)
(* points of a task runs atomically.  Each action below is one such        *)
(* atomic block of a task (an actor's run loop, or a call that a test or a *)
(* dashboard makes on the Orchestrator).  A dispatch of several actions    *)
(* that does not suspend is kept atomic with the variable cpu.             *)
(***************************************************************************)
EXTENDS Integers, Sequences, FiniteSets, TLC

(* ------------------------------ bounds -------------------------------- *)
\* max_sub_steps and max_children are constructor parameters of the
\* Orchestrator (defaults 12 and 16); the model checks small values of them.
MaxSubSteps == 2
MaxChildren == 1
\* registry size the model explores (the code has no such limit)
MaxActors == 4
\* loop iterations an immortal actor is followed for (the code has no limit)
MaxImmortalSteps == 2
\* mailbox / queue length the model explores
MaxInbox == 1
\* futures ever created
MaxFutures == 2
\* actions in one completion
MaxActions == 1
\* clock ticks the model follows
MaxTime == 0
\* registry size explored by the kill-policy specification
KillMaxActors == 4
\* registry size explored by the step-budget specification
LoopMaxActors == 2

(* ------------------------------ values -------------------------------- *)
None == 0
\* an actor id that was never handed out (uuid4().hex[:8] never repeats)
Ghost == MaxActors + 1
\* correlation / request ids the callers may supply
Rids == {"r1", "r2"}
NoRid == "none"
NoText == ""
\* the senders that are no actor: from_id "user" and a caller outside the actors
User == -1
Tester == -2
\* futures and awaiting calls the correlation specification follows
MaxWaiters == 1
\* injection events (and comms_send calls) the model follows
MaxInjections == 2

VARIABLES
    actors,          \* _actors: sequence of actor records, index = id, in insertion order
    pc,              \* position of each actor's run() task
    todo,            \* per actor: the parsed actions still to dispatch in this step
    wait,            \* per actor: what a blocked handler waits on
    main_id,         \* _main_id (None before start)
    comms_id,        \* _comms_id
    current_actor,   \* Orchestrator.current_actor
    pending_replies, \* _pending_replies: rid -> future index, None when absent
    futures,         \* every future created: [rid, state, result, sets]
    waiters,         \* the calls suspended in `await fut`: [kind, rid, fut, actor, to]
    sleep_events,    \* _sleep_events: id -> is the Event set
    main_inbox,      \* _main_inbox: injection events
    sink,            \* injection events handed to on_injection, in order
    hist,            \* history: the texts given to comms_send, the injections enqueued
    tools,           \* the tool registry: name -> handler and schema, NoTool when absent
    shutting_down,   \* _shutting_down
    started,         \* start() has been called and shutdown() not since
    now,             \* time.time()
    cpu,             \* the actor whose atomic dispatch is in progress, or None
    down,            \* the shutdown() call in progress, and the sink pump task
    ev               \* the last operation performed and what it returned

vars == <<actors, pc, todo, wait, main_id, comms_id, current_actor,
          pending_replies, futures, waiters, sleep_events, main_inbox, sink, hist,
          tools, shutting_down, started, now, cpu, down, ev>>

\* the request/reply correlation state
corrVars == <<pending_replies, futures, waiters>>

Ids == DOMAIN actors

\* an operation and what it returned: the caller or actor a, the target b, the
\* correlation id, the result, an id the result carries, the text sent, and
\* (for a completion) the "actions" list the provider's text held
EventT(op, a, b, rid, res, x, text) ==
    [op |-> op, a |-> a, b |-> b, rid |-> rid, res |-> res, x |-> x, text |-> text,
     raw |-> <<>>]
Event(op, a, b, rid, res, x) == EventT(op, a, b, rid, res, x, NoText)
NoEv == Event("none", None, None, NoRid, "", None)

(* ------------------------ the shutdown() call ------------------------- *)
\* the task id of the injection-sink pump
Pump == -3

\* no shutdown() call is suspended; pump: the _main_sink task is alive
Idle(pump) == [phase |-> "idle", ran |-> {}, pump |-> pump]

\* shutdown() is suspended in its asyncio.sleep(0): a task that was ready runs
\* one block before shutdown resumes, and no second one
CanRun(task) == down.phase = "yielded" => task \notin down.ran

\* the task has run its block
Ran(tasks) ==
    IF down.phase = "yielded" THEN [down EXCEPT !.ran = @ \cup tasks] ELSE down

\* nothing was sent or injected yet
\* the names tools are registered under, and the binding of a name that has none
ToolNames == {"a", "b"}
NoTool == [handler |-> "", model |-> ""]

NoHist == [sent |-> <<>>, injected |-> <<>>, asked |-> {}]

(* ------------------------- Orchestrator.__init__ ---------------------- *)
Init ==
    /\ actors = <<>>
    /\ pc = <<>>
    /\ todo = <<>>
    /\ wait = <<>>
    /\ main_id = None
    /\ comms_id = None
    /\ current_actor = None
    /\ pending_replies = [r \in Rids |-> None]
    /\ futures = <<>>
    /\ waiters = <<>>
    /\ sleep_events = [i \in 1..MaxActors |-> FALSE]
    /\ main_inbox = <<>>
    /\ sink = <<>>
    /\ hist = NoHist
    /\ tools = [n \in ToolNames |-> NoTool]
    /\ shutting_down = FALSE
    /\ started = FALSE
    /\ now = 0
    /\ cpu = None
    /\ down = Idle(FALSE)
    /\ ev = NoEv

(* ------------------------------ _spawn -------------------------------- *)
\* MonologueStateModel(...) and Monologue.__init__
NewActorNoParent(parent_id, immortal, llm, t) ==
    [immortal |-> immortal, use_llm |-> llm, running |-> TRUE, step |-> 0,
     created |-> t, parent_id |-> None, children |-> {}, inbox |-> <<>>,
     last_error |-> "", errors |-> 0, tool_calls |-> 0]

NewActor(parent_id, immortal, llm, t) ==
    [immortal |-> immortal, use_llm |-> llm, running |-> TRUE, step |-> 0,
     created |-> t, parent_id |-> parent_id, children |-> {}, inbox |-> <<>>,
     last_error |-> "", errors |-> 0, tool_calls |-> 0]

\* subs = [a for a in self._actors.values() if not a.immortal]
Subs(acts) == {i \in DOMAIN acts : ~acts[i].immortal}

\* sorted(subs, key=created)[0]: the least creation time; sorted is stable, so
\* among equal times the one inserted first
OldestNewest(acts, subs) ==
    CHOOSE i \in subs : \A j \in subs :
        acts[j].created < acts[i].created \/ (acts[j].created = acts[i].created /\ j <= i)

Oldest(acts, subs) ==
    CHOOSE i \in subs : \A j \in subs :
        acts[i].created < acts[j].created \/ (acts[i].created = acts[j].created /\ i <= j)

\* the eviction of _spawn: whom it flags not running
NoEvict(acts, immortal) == {}

Evicted(acts, immortal) ==
    IF ~immortal /\ Cardinality(Subs(acts)) >= MaxChildren
    THEN {Oldest(acts, Subs(acts))}
    ELSE {}

\* the registry after _spawn
Spawned(acts, parent_id, immortal, llm, t) ==
    Append([i \in DOMAIN acts |->
                IF i \in Evicted(acts, immortal)
                THEN [acts[i] EXCEPT !.running = FALSE] ELSE acts[i]],
           NewActor(parent_id, immortal, llm, t))

\* time.time() at the creation of the state model: the clock does not go back
Clock == {t \in {now, now + 1} : t <= MaxTime}

\* the task bookkeeping of _spawn: _track_task(actor.run())
TrackRun ==
    /\ pc' = Append(pc, "start")
    /\ todo' = Append(todo, <<>>)
    /\ wait' = Append(wait, None)

(* ------------------------------- start -------------------------------- *)
\* start() on a fresh orchestrator, or again after a shutdown() has returned
Start(with_comms) ==
    /\ cpu = None
    /\ ~started
    /\ down.phase # "yielded"
    /\ Len(actors) + (IF with_comms THEN 2 ELSE 1) <= MaxActors
    /\ \E t \in Clock :
        /\ now' = t
        /\ LET a1 == Spawned(actors, None, TRUE, TRUE, t)
           IN  actors' = IF with_comms THEN Spawned(a1, None, TRUE, FALSE, t) ELSE a1
    /\ pc' = pc \o (IF with_comms THEN <<"start", "start">> ELSE <<"start">>)
    /\ todo' = todo \o (IF with_comms THEN <<(<<>>), (<<>>)>> ELSE <<(<<>>)>>)
    /\ wait' = wait \o (IF with_comms THEN <<None, None>> ELSE <<None>>)
    /\ main_id' = Len(actors) + 1
    /\ comms_id' = IF with_comms THEN Len(actors) + 2 ELSE comms_id
    /\ shutting_down' = FALSE
    /\ started' = TRUE
    /\ down' = Idle(TRUE)
    /\ ev' = Event("start", None, None, NoRid,
                   IF with_comms THEN "with_comms" ELSE "", None)
    /\ UNCHANGED <<current_actor, sleep_events, main_inbox, sink, hist, cpu,
                   corrVars, tools>>

(* --------------------------- request_spawn ---------------------------- *)
\* a direct call of request_spawn (as the tests make it)
RequestSpawn(parent_id) ==
    /\ cpu = None
    /\ started
    /\ Len(actors) < MaxActors
    /\ \E t \in Clock :
        /\ now' = t
        /\ actors' = Spawned(actors, parent_id, FALSE, TRUE, t)
    /\ TrackRun
    /\ ev' = Event("request_spawn", parent_id, Len(actors) + 1, NoRid, "", None)
    /\ UNCHANGED <<down, main_id, comms_id, current_actor, sleep_events, main_inbox,
                   sink, hist, shutting_down, started, cpu, corrVars, tools>>

(* ------------------------------ role_of ------------------------------- *)
role_of(actor_id) ==
    IF actor_id = main_id THEN "main"
    ELSE IF actor_id = comms_id THEN "comms"
    ELSE "sub"

(* -------------------------- kill_with_policy -------------------------- *)
\* caller_id = caller.state.id if caller else self._main_id
CallerId(caller) == IF caller # None THEN caller ELSE main_id

\* tid = target_id or caller_id  (ids are non-empty strings, so only None is falsy)
KillTid(caller, target_id) ==
    IF target_id # None THEN target_id ELSE CallerId(caller)

KillErrorNoSubRule(caller, target_id) ==
    LET tid == KillTid(caller, target_id)
    IN  IF tid = comms_id THEN "cannot kill Communication"
        ELSE IF tid \notin Ids THEN "unknown id"
        ELSE ""

KillErrorNoCommsRule(caller, target_id) ==
    LET tid == KillTid(caller, target_id)
    IN  IF role_of(CallerId(caller)) = "sub" /\ tid # CallerId(caller)
        THEN "sub may only kill self"
        ELSE IF tid \notin Ids THEN "unknown id"
        ELSE ""

KillErrorNoUnknownRule(caller, target_id) ==
    LET tid == KillTid(caller, target_id)
    IN  IF role_of(CallerId(caller)) = "sub" /\ tid # CallerId(caller)
        THEN "sub may only kill self"
        ELSE IF tid = comms_id THEN "cannot kill Communication"
        ELSE ""

\* the error kill_with_policy returns, "" when it kills
KillError(caller, target_id) ==
    LET tid == KillTid(caller, target_id)
    IN  IF role_of(CallerId(caller)) = "sub" /\ tid # CallerId(caller)
        THEN "sub may only kill self"
        ELSE IF tid = comms_id THEN "cannot kill Communication"
        ELSE IF tid \notin Ids THEN "unknown id"
        ELSE ""

KilledAll(acts, tid) == [i \in DOMAIN acts |-> [acts[i] EXCEPT !.running = FALSE]]

\* a.state.running = False
Killed(acts, tid) == [acts EXCEPT ![tid].running = FALSE]

\* kill_with_policy(target_id) with current_actor = caller: the registry after it
KillActors(caller, target_id) ==
    IF KillError(caller, target_id) = ""
    THEN Killed(actors, KillTid(caller, target_id))
    ELSE actors

\* the value kill_with_policy returns: ev.res is "ok" or the error, ev.x the killed id
KillEvent(caller, target_id) ==
    IF KillError(caller, target_id) = ""
    THEN Event("kill", caller, target_id, NoRid, "ok", KillTid(caller, target_id))
    ELSE Event("kill", caller, target_id, NoRid, KillError(caller, target_id), None)

\* o.current_actor = caller; await o.kill_with_policy(target_id)
\* (test_kill_policy.py sets the caller this way)
KillCall(caller, target_id) ==
    /\ cpu = None
    /\ started
    /\ current_actor' = caller
    /\ actors' = KillActors(caller, target_id)
    /\ ev' = KillEvent(caller, target_id)
    /\ UNCHANGED <<down, pc, todo, wait, main_id, comms_id, sleep_events, main_inbox,
                   sink, hist, shutting_down, started, now, cpu, corrVars, tools>>

(* ----------------------- claims: the kill policy ---------------------- *)
\* a step that is a kill_with_policy call (every action writes ev)
IsKill == ev'.op = "kill"
KillCaller == CallerId(ev'.a)
Running(acts) == [i \in DOMAIN acts |-> acts[i].running]

\* C4: kill_with_policy called while the current actor is a sub-role actor, with
\* a target id other than the caller's own id, returns ok=false with the error
\* "sub may only kill self" and leaves every actor's running flag unchanged.
C4_SubMayOnlyKillSelf ==
    [][(IsKill /\ ev'.a # None /\ role_of(ev'.a) = "sub"
          /\ ev'.b # None /\ ev'.b # ev'.a)
        => (ev'.res = "sub may only kill self" /\ Running(actors') = Running(actors))]_vars

\* a sub has asked to kill another registered sub
C4_Witness ==
    /\ ev.op = "kill" /\ ev.a # None /\ role_of(ev.a) = "sub"
    /\ ev.b \in Ids /\ ev.b # ev.a /\ role_of(ev.b) = "sub"
    /\ actors[ev.b].running

\* C5: for every caller (Main, a sub, or no current actor), kill_with_policy
\* with the Comms actor's id as target returns ok=false with a non-empty error,
\* and the Comms actor's running flag stays true.
C5_NobodyKillsComms ==
    [][(IsKill /\ comms_id # None /\ ev'.b = comms_id)
        => (ev'.res \notin {"ok", ""}
            /\ (actors[comms_id].running => actors'[comms_id].running))]_vars

\* Main (or a call with no current actor) has asked to kill Comms, which runs
C5_Witness ==
    /\ ev.op = "kill" /\ comms_id # None /\ ev.b = comms_id
    /\ ev.a \in {None, main_id}
    /\ actors[comms_id].running

\* C6: kill_with_policy succeeds in the permitted cases - a main-role caller
\* targeting a registered sub, or a sub-role caller targeting itself explicitly
\* or by omitting the target - returning {ok:true, killed:<target id>} and
\* setting the running flag of exactly that target to false, leaving every
\* other actor unchanged.
C6_PermittedKill ==
    [][(IsKill /\
          \/ (role_of(KillCaller) = "main" /\ ev'.b \in Ids /\ role_of(ev'.b) = "sub")
          \/ (ev'.a # None /\ role_of(ev'.a) = "sub" /\ ev'.b \in {ev'.a, None}))
        => LET tid == IF ev'.b = None THEN ev'.a ELSE ev'.b
           IN  /\ ev'.res = "ok"
               /\ ev'.x = tid
               /\ ~actors'[tid].running
               /\ \A i \in Ids : i # tid => actors'[i] = actors[i]
               /\ DOMAIN actors' = DOMAIN actors]_vars

\* a sub that was running has been killed by Main while another sub runs on
C6_Witness ==
    /\ ev.op = "kill" /\ ev.res = "ok" /\ ev.a = main_id
    /\ ev.x \in Ids /\ role_of(ev.x) = "sub"
    /\ \E i \in Ids : i # ev.x /\ role_of(i) = "sub" /\ actors[i].running

\* C7 as stated: kill_with_policy with a target id that is not in the registry
\* returns {ok:false, error:"unknown id"} whatever the caller's role, and
\* changes no actor's state.
C7_UnknownIdAnyCaller ==
    [][(IsKill /\ ev'.b # None /\ ev'.b \notin Ids)
        => (ev'.res = "unknown id" /\ actors' = actors)]_vars

\* C7 amended: kill_with_policy with a target id that is not in the registry
\* changes no actor's state and returns ok=false; the error is "unknown id"
\* unless the caller is a sub-role actor, which is told "sub may only kill self".
C7_UnknownId ==
    [][(IsKill /\ ev'.b # None /\ ev'.b \notin Ids)
        => /\ actors' = actors
           /\ ev'.res = IF role_of(KillCaller) = "sub"
                        THEN "sub may only kill self" ELSE "unknown id"]_vars

\* Main has asked to kill an id that was never registered, with subs around
C7_Witness ==
    /\ ev.op = "kill" /\ ev.b = Ghost /\ ev.a = main_id /\ ev.res = "unknown id"
    /\ \E i \in Ids : role_of(i) = "sub" /\ actors[i].running

(* ------------------------ specification: kill policy ------------------ *)
NextKill ==
    \/ \E wc \in BOOLEAN : Start(wc)
    \/ Len(actors) < KillMaxActors /\ RequestSpawn(main_id)
    \/ \E c \in Ids \cup {None}, t \in Ids \cup {None, Ghost} : KillCall(c, t)

SpecKill == Init /\ [][NextKill]_vars

\* the actor a call has just put at the end of the registry
Newest == actors'[Len(actors')]

\* C17: start(goal, with_comms=true) on a new orchestrator leaves exactly two
\* actors in the registry, Main and Comms, both immortal; each request_spawn
\* with Main's id as parent adds exactly one actor, which is not immortal, is
\* running, has Main's id as parent_id and step counter 0.
C17_StartAndSpawnFromMain ==
    [][/\ (ev'.op = "start" /\ ev'.res = "with_comms" /\ actors = <<>>) =>
            /\ Len(actors') = 2
            /\ main_id' = 1 /\ comms_id' = 2
            /\ role_of(1)' = "main" /\ role_of(2)' = "comms"
            /\ \A i \in 1..2 : actors'[i].immortal
       /\ (ev'.op = "request_spawn" /\ ev'.a = main_id) =>
            /\ Len(actors') = Len(actors) + 1
            /\ ev'.b = Len(actors')
            /\ ~Newest.immortal
            /\ Newest.running
            /\ Newest.parent_id = main_id
            /\ Newest.step = 0
            /\ pc'[ev'.b] = "start"]_vars

C17_Witness ==
    /\ ev.op = "request_spawn" /\ ev.a = main_id
    /\ main_id = 1 /\ comms_id = 2 /\ Len(actors) = 4
    /\ \A i \in 3..4 : ~actors[i].immortal /\ actors[i].parent_id = main_id
    /\ actors[4].running /\ ~actors[3].running

(* ------------------------- models/actions.py -------------------------- *)
\* ActionName: the eleven tags of the ActionType union
PrimitiveTags ==
    {"inject", "spawn", "stop_self", "stop_child", "sleep", "idle", "tool",
     "report_status", "route_message", "ask_user", "user_reply"}

\* ACTION_HANDLERS: the tags of the capability layer
CapabilityTags ==
    {"open_monologue", "ask_user", "sleep", "message_monologue",
     "list_monologue", "kill_monologue"}

\* one entry of a completion's "actions" list: its tag, its fields, and whether
\* the fields validate against the model of the tag
Raw(type, id, rid, content, valid) ==
    [type |-> type, id |-> id, rid |-> rid, content |-> content, valid |-> valid]

\* the float json.loads gives for the token Infinity, which the float fields
\* of SleepAction and IdleAction accept
Infinity == 1000

ParseAll(raw) == raw

\* parse_actions: the entries that validate as one of the eleven primitive
\* kinds, in order (an entry with another tag fails the discriminated union)
parse_actions(raw) ==
    SelectSeq(raw, LAMBDA e : e.type \in PrimitiveTags /\ e.valid)

(* ---------------------------- Monologue.run --------------------------- *)
\* every step of a task writes the same event
TaskEv == Event("task", None, None, NoRid, "", None)

LoopCondNoBudget(a) == actors[a].running

\* the while test without the running flag
LoopCondNoFlag(a) == actors[a].immortal \/ actors[a].step < MaxSubSteps

\* while self.state.running and (self.immortal or self.state.step < max_sub_steps)
LoopCond(a) ==
    actors[a].running /\ (actors[a].immortal \/ actors[a].step < MaxSubSteps)

\* finally: if not self.immortal: self.state.running = False
Finally(acts, a) ==
    IF ~acts[a].immortal THEN [acts EXCEPT ![a].running = FALSE] ELSE acts

\* the task is scheduled for the first time, or the trailing
\* asyncio.sleep(cycle_delay) is over: the while test, and the exit when it fails
LoopHead(a) ==
    /\ cpu = None
    /\ CanRun(a)
    /\ down' = Ran({a})
    /\ pc[a] \in {"start", "delay2"}
    /\ actors[a].immortal => actors[a].step < MaxImmortalSteps
    /\ IF LoopCond(a)
       THEN /\ pc' = [pc EXCEPT ![a] = "delay1"]
            /\ UNCHANGED actors
       ELSE /\ pc' = [pc EXCEPT ![a] = "done"]
            /\ actors' = Finally(actors, a)
    /\ ev' = TaskEv
    /\ UNCHANGED <<todo, wait, main_id, comms_id, current_actor, sleep_events,
                   main_inbox, sink, hist, shutting_down, started, now, cpu,
                   corrVars, tools>>

\* the get_nowait loop until QueueEmpty: the messages it collected, in order
\* (inbox_msgs of _build_prompt, msgs of the forwarding branch)
Drained(a) ==
    [EventT("drain", a, None, NoRid, "", None, NoText) EXCEPT !.raw = actors[a].inbox]

\* the leading asyncio.sleep(cycle_delay) is over, use_llm: _build_prompt drains
\* the mailbox, then the completion is requested
BuildPrompt(a) ==
    /\ cpu = None
    /\ CanRun(a)
    /\ down' = Ran({a})
    /\ pc[a] = "delay1"
    /\ actors[a].use_llm
    /\ actors' = [actors EXCEPT ![a].inbox = <<>>]
    /\ pc' = [pc EXCEPT ![a] = "llm"]
    /\ ev' = Drained(a)
    /\ UNCHANGED <<todo, wait, main_id, comms_id, current_actor, sleep_events,
                   main_inbox, sink, hist, shutting_down, started, now, cpu,
                   corrVars, tools>>

\* InjectionModel(from_id, content)
Injection(from_id, content) == [from_id |-> from_id, content |-> content]

\* the forwarded injection of a mailbox message m
InjectionFromNobody(a, m) == [from_id |-> None, content |-> <<"[user]", m>>]

\* InjectionModel(from_id=self.state.id, content=f"[user] {m}")
Forward(a, m) == Injection(a, <<"[user]", m>>)

\* one injection for each message of the drained mailbox, in mailbox order
Forwards(a) == [k \in 1..Len(actors[a].inbox) |-> Forward(a, actors[a].inbox[k])]

\* the forwarding branch (use_llm false): drain the mailbox, inject each message
\* toward Main, step += 1
CommsForward(a) ==
    /\ cpu = None
    /\ CanRun(a)
    /\ down' = Ran({a})
    /\ pc[a] = "delay1"
    /\ ~actors[a].use_llm
    /\ Len(hist.injected) + Len(actors[a].inbox) <= MaxInjections
    /\ main_inbox' = main_inbox \o Forwards(a)
    /\ hist' = [hist EXCEPT !.injected = @ \o Forwards(a)]
    /\ actors' = [actors EXCEPT ![a].inbox = <<>>, ![a].step = @ + 1]
    /\ current_actor' = IF actors[a].inbox = <<>> THEN current_actor ELSE None
    /\ pc' = [pc EXCEPT ![a] = "delay2"]
    /\ ev' = Drained(a)
    /\ UNCHANGED <<todo, wait, main_id, comms_id, sleep_events, sink,
                   shutting_down, started, now, cpu, corrVars, tools>>

\* the completion returned a text of the given kind whose "actions" list is
\* raw: parse_actions, and _dispatch_actions up to its first handler (an empty
\* list ends the step at once)
LlmStep(a, raw, kind) ==
    /\ cpu = None
    /\ CanRun(a)
    /\ down' = Ran({a})
    /\ pc[a] = "llm"
    /\ IF parse_actions(raw) = <<>>
       THEN /\ actors' = [actors EXCEPT ![a].last_error = "", ![a].step = @ + 1]
            /\ pc' = [pc EXCEPT ![a] = "delay2"]
            /\ UNCHANGED <<todo, cpu>>
       ELSE /\ todo' = [todo EXCEPT ![a] = parse_actions(raw)]
            /\ pc' = [pc EXCEPT ![a] = "dispatch"]
            /\ cpu' = a
            /\ UNCHANGED actors
    /\ ev' = [EventT("completion", a, None, NoRid, "", None, kind) EXCEPT !.raw = raw]
    /\ UNCHANGED <<wait, main_id, comms_id, current_actor, sleep_events,
                   main_inbox, sink, hist, shutting_down, started, now, corrVars, tools>>

\* the completion returns a JSON object with the "actions" list raw
LlmReturn(a, raw) == LlmStep(a, raw, "json object")

(* ----------------------- Monologue._dispatch_actions ------------------ *)
\* the action _dispatch_actions is at
Dispatching(a, type) ==
    /\ cpu = a
    /\ pc[a] = "dispatch"
    /\ todo[a] # <<>>
    /\ Head(todo[a]).type = type

\* self.state.last_error = ""  (last_action, a label that nothing reads back,
\* is not modelled)
Marked(acts, a) == [acts EXCEPT ![a].last_error = ""]

\* the handler's exception is swallowed: neither last_error nor the log has it
NotFailed(acts, a, e) == acts

\* except Exception as e: self.state.last_error = str(e), and
\* _remember("error:..."), which appends a line to context_buffer (errors
\* counts these lines)
Failed(acts, a, e) == [acts EXCEPT ![a].last_error = e, ![a].errors = @ + 1]

\* after the last action of the list: step += 1, then the trailing delay
StepDone(acts, a) ==
    IF Tail(todo[a]) = <<>> THEN [acts EXCEPT ![a].step = @ + 1] ELSE acts

\* a handler that did not suspend has returned (or raised): finally
\* current_actor = None, then the next action, or the end of the step
Handled(a) ==
    /\ current_actor' = None
    /\ todo' = [todo EXCEPT ![a] = Tail(@)]
    /\ cpu' = IF Tail(todo[a]) = <<>> THEN None ELSE a

\* pc after a handler that spawned nobody
PcAfter(a) ==
    IF Tail(todo[a]) = <<>> THEN [pc EXCEPT ![a] = "delay2"] ELSE pc

\* SpawnAction: request_spawn(parent_id = self), children.add(child id)
DoSpawn(a) ==
    /\ Dispatching(a, "spawn")
    /\ Len(actors) < MaxActors
    /\ \E t \in Clock :
        /\ now' = t
        /\ LET child == Len(actors) + 1
               acts1 == Spawned(Marked(actors, a), a, FALSE, TRUE, t)
           IN  actors' = StepDone([acts1 EXCEPT ![a].children = @ \cup {child}], a)
    /\ pc' = Append(PcAfter(a), "start")
    /\ todo' = Append([todo EXCEPT ![a] = Tail(@)], <<>>)
    /\ wait' = Append(wait, None)
    /\ current_actor' = None
    /\ cpu' = IF Tail(todo[a]) = <<>> THEN None ELSE a
    /\ down' = Ran({Len(actors) + 1})
    /\ ev' = Event("request_spawn", a, Len(actors) + 1, NoRid, "", None)
    /\ UNCHANGED <<main_id, comms_id, sleep_events, main_inbox, sink, hist,
                   shutting_down, started, corrVars, tools>>

\* StopSelfAction: self.state.running = False
DoStopSelf(a) ==
    /\ Dispatching(a, "stop_self")
    /\ actors' = StepDone([Marked(actors, a) EXCEPT ![a].running = FALSE], a)
    /\ pc' = PcAfter(a)
    /\ Handled(a)
    /\ ev' = Event("stop_self", a, None, NoRid, "", None)
    /\ UNCHANGED <<down, wait, main_id, comms_id, sleep_events, main_inbox, sink, hist,
                   shutting_down, started, now, corrVars, tools>>

StopChildAny(acts, actor_id) ==
    IF actor_id \in DOMAIN acts
    THEN [acts EXCEPT ![actor_id].running = FALSE] ELSE acts

\* Orchestrator.stop_child: a = self._actors.get(actor_id); if a and not a.immortal
StopChild(acts, actor_id) ==
    IF actor_id \in DOMAIN acts /\ ~acts[actor_id].immortal
    THEN [acts EXCEPT ![actor_id].running = FALSE] ELSE acts

\* StopChildAction: stop_child(act.id), children.discard(act.id)
DoStopChild(a) ==
    /\ Dispatching(a, "stop_child")
    /\ LET id == Head(todo[a]).id
           acts1 == StopChild(Marked(actors, a), id)
       IN  actors' = StepDone([acts1 EXCEPT ![a].children = @ \ {id}], a)
    /\ pc' = PcAfter(a)
    /\ Handled(a)
    /\ ev' = Event("stop_child", a, Head(todo[a]).id, NoRid, "", None)
    /\ UNCHANGED <<down, wait, main_id, comms_id, sleep_events, main_inbox, sink, hist,
                   shutting_down, started, now, corrVars, tools>>

(* ------------------- claims: the population cap ----------------------- *)
RunningSubs(acts) == {i \in DOMAIN acts : ~acts[i].immortal /\ acts[i].running}
IsSpawn == ev'.op = "request_spawn"
\* the actors a step takes from running to not running
Stopped == {i \in Ids : actors[i].running /\ ~actors'[i].running}

\* C2: in every reachable state, the number of non-immortal actors whose
\* running flag is true is at most max_children, for any sequence of
\* request_spawn calls interleaved with actor steps and terminations.
C2_RunningSubsCapped == Cardinality(RunningSubs(actors)) <= MaxChildren

\* C3: every request_spawn issued when the number of non-immortal actors has
\* reached max_children evicts exactly one actor: exactly one actor goes from
\* running to not running (never zero, never two), it is the non-immortal actor
\* with the earliest creation timestamp, and no entry is removed from the
\* registry.
C3_SpawnEvictsExactlyOne ==
    [][(IsSpawn /\ Cardinality(Subs(actors)) >= MaxChildren)
        => /\ Cardinality(Stopped) = 1
           /\ \A i \in Stopped : /\ ~actors[i].immortal
                                 /\ \A j \in Subs(actors) : actors[i].created <= actors[j].created
           /\ Len(actors') = Len(actors) + 1
           /\ \A i \in Ids : actors'[i].created = actors[i].created]_vars

(* --------------- specification: population and step budget ------------ *)
\* what a completion may hold in this specification: Main spawns and stops
\* children, a sub stops itself
SpawnEntries(a) ==
    IF a = main_id
    THEN {Raw("spawn", None, NoRid, NoText, TRUE)}
            \cup {Raw("stop_child", i, NoRid, NoText, TRUE) : i \in Ids}
    ELSE {Raw("stop_self", None, NoRid, NoText, TRUE)}

Completions(entries, n) ==
    UNION {[1..k -> entries] : k \in 0..n}

NextSpawn ==
    \/ Start(FALSE)
    \/ RequestSpawn(main_id)
    \/ \E a \in Ids : LoopHead(a)
    \/ \E a \in Ids : BuildPrompt(a)
    \/ \E a \in Ids : \E raw \in Completions(SpawnEntries(a), 1) : LlmReturn(a, raw)
    \/ \E a \in Ids : DoSpawn(a)
    \/ \E a \in Ids : DoStopSelf(a)
    \/ \E a \in Ids : DoStopChild(a)

SpecSpawn == Init /\ [][NextSpawn]_vars

(* ---------------------- claims: the step budget ----------------------- *)
\* an actor inside a loop iteration: in the leading delay, awaiting its
\* completion, or dispatching
InIteration(a) == pc[a] \in {"delay1", "llm", "dispatch"}

\* C8: in every reachable state a non-immortal actor's step counter is at most
\* max_sub_steps, and the actor starts no further loop iteration (requests no
\* completion) once its step counter equals max_sub_steps.
C8_StepBudget ==
    \A a \in Ids : ~actors[a].immortal =>
        /\ actors[a].step <= MaxSubSteps
        /\ InIteration(a) => actors[a].step < MaxSubSteps

\* a sub has used its whole budget and its loop has ended
C8_Witness ==
    \E a \in Ids : ~actors[a].immortal /\ actors[a].step = MaxSubSteps /\ pc[a] = "done"

(* --------------------- specification: the step budget ----------------- *)
\* what a completion may hold in this specification
LoopEntries(a) ==
    IF a = main_id
    THEN {Raw("spawn", None, NoRid, NoText, TRUE)}
            \cup {Raw("stop_child", i, NoRid, NoText, TRUE) : i \in Ids \ {a}}
    ELSE {Raw("stop_self", None, NoRid, NoText, TRUE),
          Raw("kill_monologue", None, NoRid, NoText, TRUE)}

\* the spawn actions of a completion
NumSpawns(raw) == Cardinality({k \in DOMAIN raw : raw[k].type = "spawn"})

NextLoop ==
    \/ \E wc \in BOOLEAN : Start(wc)
    \/ \E a \in Ids : LoopHead(a)
    \/ \E a \in Ids : BuildPrompt(a)
    \/ \E a \in Ids : CommsForward(a)
    \/ \E a \in Ids : \E raw \in Completions(LoopEntries(a), MaxActions) :
            Len(actors) + NumSpawns(raw) <= LoopMaxActors + (IF comms_id = None THEN 0 ELSE 1)
            /\ LlmReturn(a, raw)
    \/ \E a \in Ids : DoSpawn(a)
    \/ \E a \in Ids : DoStopSelf(a)
    \/ \E a \in Ids : DoStopChild(a)

SpecLoop == Init /\ [][NextLoop]_vars

(* ------------------ request / reply correlation ----------------------- *)
\* a payload dict: absent keys are NoRid / NoText
Payload(from_id, content, request_id, reply_to) ==
    [from_id |-> from_id, content |-> content, request_id |-> request_id,
     reply_to |-> reply_to]
NoPayload == Payload(None, NoText, NoRid, NoRid)

\* a mailbox line: how it was decorated, and the parts it was formatted from
Line(tag, from, rid, content) ==
    [tag |-> tag, from |-> from, rid |-> rid, content |-> content]

\* route_incoming: the human-readable line of a payload
RouteLine(payload) ==
    IF payload.request_id # NoRid
    THEN Line("from req", payload.from_id, payload.request_id, payload.content)
    ELSE IF payload.reply_to # NoRid
    THEN Line("from reply_to", payload.from_id, payload.reply_to, payload.content)
    ELSE Line("", None, NoRid, payload.content)

\* if rid and (fut := self._pending_replies.pop(rid, None))
HasFuture(rid) == rid # NoRid /\ pending_replies[rid] # None

NotPopped(rid) == pending_replies

\* self._pending_replies.pop(rid, None)
Popped(rid) ==
    IF HasFuture(rid) THEN [pending_replies EXCEPT ![rid] = None] ELSE pending_replies

ResolvedNoPayload(rid, payload) ==
    IF HasFuture(rid) /\ futures[pending_replies[rid]].state = "pending"
    THEN [futures EXCEPT ![pending_replies[rid]] =
            [@ EXCEPT !.state = "done", !.sets = @ + 1]]
    ELSE futures

\* if not fut.done(): fut.set_result(payload)
Resolved(rid, payload) ==
    IF HasFuture(rid) /\ futures[pending_replies[rid]].state = "pending"
    THEN [futures EXCEPT ![pending_replies[rid]] =
            [@ EXCEPT !.state = "done", !.result = payload, !.sets = @ + 1]]
    ELSE futures

\* the future this call resolves, if any
ResolvedFuture(rid) ==
    IF HasFuture(rid) /\ futures[pending_replies[rid]].state = "pending"
    THEN pending_replies[rid] ELSE None

\* the line jumps the queue
DeliveredFirst(acts, target_id, line) ==
    [acts EXCEPT ![target_id].inbox = <<line>> \o @]

\* await q.put(line)
Delivered(acts, target_id, line) ==
    [acts EXCEPT ![target_id].inbox = Append(@, line)]

NotNotified(target_id) == sleep_events

\* notify_actor_message: ev.set()
Notified(target_id) == [sleep_events EXCEPT ![target_id] = TRUE]

\* route_incoming(target_id, payload): the resolution, then, unless
\* self._actors[target_id] raises KeyError, the line and the wake signal
RouteCorr(target_id, payload) ==
    /\ pending_replies' = Popped(payload.reply_to)
    /\ futures' = Resolved(payload.reply_to, payload)
    /\ sleep_events' = IF target_id \in Ids THEN Notified(target_id) ELSE sleep_events

RouteActors(acts, target_id, payload) ==
    IF target_id \in DOMAIN acts
    THEN Delivered(acts, target_id, RouteLine(payload))
    ELSE acts

RouteError(target_id) == IF target_id \in Ids THEN "" ELSE "KeyError"

\* room in the mailbox the model follows
Room(target_id) == target_id \in Ids => Len(actors[target_id].inbox) < MaxInbox

\* a direct call of route_incoming (test_route_incoming_sets_reply)
RouteIncomingCall(target_id, payload) ==
    /\ cpu = None
    /\ started
    /\ Room(target_id)
    /\ RouteCorr(target_id, payload)
    /\ actors' = RouteActors(actors, target_id, payload)
    /\ ev' = EventT("route_incoming", payload.from_id, target_id, payload.reply_to,
                    RouteError(target_id), ResolvedFuture(payload.reply_to),
                    payload.content)
    /\ UNCHANGED <<down, pc, todo, wait, main_id, comms_id, current_actor, waiters,
                   main_inbox, sink, hist, shutting_down, started, now, cpu, tools>>

\* RouteMessageAction: payload = {from_id, content}; route_incoming(act.to, payload);
\* a KeyError is caught by _dispatch_actions
DoRouteMessage(a) ==
    /\ Dispatching(a, "route_message")
    /\ Room(Head(todo[a]).id)
    /\ LET to == Head(todo[a]).id
           payload == Payload(a, Head(todo[a]).content, NoRid, NoRid)
           acts1 == RouteActors(Marked(actors, a), to, payload)
       IN  /\ RouteCorr(to, payload)
           /\ actors' = StepDone(IF to \in Ids THEN acts1 ELSE Failed(acts1, a, "KeyError"), a)
           /\ ev' = Event("route_message", a, to, NoRid, RouteError(to), None)
    /\ pc' = PcAfter(a)
    /\ Handled(a)
    /\ UNCHANGED <<down, wait, main_id, comms_id, waiters, main_inbox, sink, hist,
                   shutting_down, started, now, tools>>

\* on_user_message(text, correlation_id): the registry after it
UserActors(acts, text, cid) ==
    IF main_id \notin DOMAIN acts THEN acts
    ELSE IF HasFuture(cid)
    THEN Delivered(acts, main_id, Line("USER replied cid", User, cid, text))
    ELSE Delivered(acts, main_id, Line("USER", User, NoRid, text))

\* on_user_message: the resolution, and the wake signal of the forwarding branch
UserCorr(text, cid) ==
    /\ pending_replies' = Popped(cid)
    /\ futures' = Resolved(cid, Payload(User, text, NoRid, cid))
    /\ sleep_events' = IF ~HasFuture(cid) /\ main_id \in Ids
                       THEN Notified(main_id) ELSE sleep_events

\* a direct call of on_user_message (a dashboard's)
OnUserMessageCall(text, cid) ==
    /\ cpu = None
    /\ started
    /\ Room(main_id)
    /\ UserCorr(text, cid)
    /\ actors' = UserActors(actors, text, cid)
    /\ ev' = EventT("on_user_message", User, main_id, cid, "", ResolvedFuture(cid), text)
    /\ UNCHANGED <<down, pc, todo, wait, main_id, comms_id, current_actor, waiters,
                   main_inbox, sink, hist, shutting_down, started, now, cpu, tools>>

\* AskUserAction: comms_show_question(act.id, act.content, act.choices), which
\* hands the question to on_question or prints it; hist.asked records the id
DoAskUser(a) ==
    /\ Dispatching(a, "ask_user")
    /\ actors' = StepDone(Marked(actors, a), a)
    /\ hist' = [hist EXCEPT !.asked = @ \cup {Head(todo[a]).rid}]
    /\ ev' = EventT("ask_user", a, None, Head(todo[a]).rid, "", None, Head(todo[a]).content)
    /\ pc' = PcAfter(a)
    /\ Handled(a)
    /\ UNCHANGED <<down, wait, main_id, comms_id, waiters, main_inbox, sink,
                   shutting_down, started, now, sleep_events, pending_replies, futures, tools>>

\* UserReplyAction: on_user_message(act.content, act.in_reply_to)
DoUserReply(a) ==
    /\ Dispatching(a, "user_reply")
    /\ Room(main_id)
    /\ LET text == Head(todo[a]).content
           cid == Head(todo[a]).rid
       IN  /\ UserCorr(text, cid)
           /\ actors' = StepDone(UserActors(Marked(actors, a), text, cid), a)
           /\ ev' = Event("user_reply", a, main_id, cid, "", ResolvedFuture(cid))
    /\ pc' = PcAfter(a)
    /\ Handled(a)
    /\ UNCHANGED <<down, wait, main_id, comms_id, waiters, main_inbox, sink, hist,
                   shutting_down, started, now, tools>>

\* fut = self._pending_replies.get(request_id); if fut is None or fut.done()
NeedsFuture(rid) ==
    pending_replies[rid] = None \/ futures[pending_replies[rid]].state # "pending"

\* the future await_reply / await_user_reply awaits
FutureFor(rid) ==
    IF NeedsFuture(rid) THEN Len(futures) + 1 ELSE pending_replies[rid]

\* create_future(); self._pending_replies[request_id] = fut
Registered(rid) ==
    /\ NeedsFuture(rid) => Len(futures) < MaxFutures
    /\ futures' = IF NeedsFuture(rid)
                  THEN Append(futures, [rid |-> rid, state |-> "pending",
                                        result |-> NoPayload, sets |-> 0])
                  ELSE futures
    /\ pending_replies' = [pending_replies EXCEPT ![rid] = FutureFor(rid)]

\* a call suspended in `await fut`
Waiter(kind, rid, actor, to) ==
    [kind |-> kind, rid |-> rid, fut |-> FutureFor(rid), actor |-> actor, to |-> to]

\* a direct call of await_reply(request_id), or of await_user_reply(cid, timeout),
\* up to its `await fut`
Await(kind, rid) ==
    /\ cpu = None
    /\ started
    /\ Len(waiters) < MaxWaiters
    /\ Registered(rid)
    /\ waiters' = Append(waiters, Waiter(kind, rid, None, None))
    /\ ev' = Event(kind, None, None, rid, "", FutureFor(rid))
    /\ UNCHANGED <<down, actors, pc, todo, wait, main_id, comms_id, current_actor,
                   sleep_events, main_inbox, sink, hist, shutting_down, started, now, cpu, tools>>

\* _handle_message_monologue(monologue, model), called on actor a: the request is
\* routed, then with wait_for_reply the handler awaits the reply
HandleMessageMonologue(a, to_id, req_id, content, wait_for_reply) ==
    /\ cpu = None
    /\ started
    /\ Room(to_id)
    /\ LET payload == Payload(a, content, req_id, NoRid)
           waits == wait_for_reply /\ to_id \in Ids
       IN  /\ actors' = RouteActors(actors, to_id, payload)
           /\ sleep_events' = IF to_id \in Ids THEN Notified(to_id) ELSE sleep_events
           /\ IF waits
              THEN /\ Len(waiters) < MaxWaiters
                   /\ Registered(req_id)
                   /\ waiters' = Append(waiters, Waiter("message_monologue", req_id, a, to_id))
              ELSE UNCHANGED <<pending_replies, futures, waiters>>
           /\ ev' = Event("message_monologue", a, to_id, req_id, RouteError(to_id),
                          IF waits THEN FutureFor(req_id) ELSE None)
    /\ UNCHANGED <<down, pc, todo, wait, main_id, comms_id, current_actor, main_inbox,
                   sink, hist, shutting_down, started, now, cpu, tools>>

\* _handle_ask_user(monologue, model), called on actor a with a correlation id:
\* comms_show_question(cid, question, choices), then await_user_reply(cid) up
\* to its `await fut`
HandleAskUser(a, cid, question) ==
    /\ cpu = None
    /\ started
    /\ Len(waiters) < MaxWaiters
    /\ Registered(cid)
    /\ waiters' = Append(waiters, Waiter("ask_user", cid, a, None))
    /\ ev' = EventT("ask_user()", a, None, cid, "", FutureFor(cid), question)
    /\ UNCHANGED <<down, actors, pc, todo, wait, main_id, comms_id, current_actor,
                   sleep_events, main_inbox, sink, hist, shutting_down, started, now, cpu, tools>>

\* the sequence without its w-th element
Without(seq, w) == [k \in 1..(Len(seq) - 1) |-> IF k < w THEN seq[k] ELSE seq[k + 1]]

\* what the resumed call returns: await_reply the payload (its sender and its
\* content), await_user_reply res.get("content") alone
ReturnedFrom(w) ==
    IF waiters[w].kind \in {"await_user_reply", "ask_user"} THEN None
    ELSE futures[waiters[w].fut].result.from_id

\* the line without the correlation id
AskLineNoCid(cid, reply) == Line("reply cid", None, NoRid, reply)

\* _handle_ask_user: f"[reply cid:{cid}] {reply}"
AskLine(cid, reply) == Line("reply cid", None, cid, reply)

\* the future of a suspended call is done: the call returns its result;
\* _handle_message_monologue then puts reply.get("content") into its actor's
\* mailbox, _handle_ask_user the reply line (the texts in use are never None)
WaiterResume(w) ==
    /\ cpu = None
    /\ waiters[w].fut # None
    /\ futures[waiters[w].fut].state = "done"
    /\ waiters[w].kind \in {"message_monologue", "ask_user"} => Room(waiters[w].actor)
    /\ waiters' = Without(waiters, w)
    /\ actors' = IF waiters[w].kind = "message_monologue"
                 THEN Delivered(actors, waiters[w].actor,
                                Line("", None, NoRid, futures[waiters[w].fut].result.content))
                 ELSE IF waiters[w].kind = "ask_user"
                 THEN Delivered(actors, waiters[w].actor,
                                AskLine(waiters[w].rid,
                                        futures[waiters[w].fut].result.content))
                 ELSE actors
    /\ ev' = EventT("returned", waiters[w].actor, ReturnedFrom(w), waiters[w].rid,
                    waiters[w].kind, waiters[w].fut,
                    futures[waiters[w].fut].result.content)
    /\ UNCHANGED <<down, pc, todo, wait, main_id, comms_id, current_actor, pending_replies,
                   futures, sleep_events, main_inbox, sink, hist, shutting_down, started,
                   now, cpu, tools>>

\* await_user_reply(cid, timeout): asyncio.wait_for times out, cancels the future
\* and the call returns None; whoever else awaits that future is cancelled with it
WaiterTimeout(w) ==
    /\ cpu = None
    /\ waiters[w].kind = "await_user_reply"
    /\ futures[waiters[w].fut].state = "pending"
    /\ futures' = [futures EXCEPT ![waiters[w].fut].state = "cancelled"]
    /\ waiters' = SelectSeq(waiters, LAMBDA v : v.fut # waiters[w].fut)
    /\ ev' = Event("timeout", None, None, waiters[w].rid, "", waiters[w].fut)
    /\ UNCHANGED <<down, actors, pc, todo, wait, main_id, comms_id, current_actor,
                   pending_replies, sleep_events, main_inbox, sink, hist, shutting_down,
                   started, now, cpu, tools>>

(* ------------------- specification: correlation ----------------------- *)
MsgTexts == {"t1"}

AwaitKinds == {"await_reply", "await_user_reply"}

NextMsg ==
    \/ Start(FALSE)
    \/ \E t \in Ids \cup {Ghost}, r \in Rids \cup {NoRid}, c \in MsgTexts :
            RouteIncomingCall(t, Payload(Tester, c, NoRid, r))
    \/ \E r \in Rids \cup {NoRid}, c \in MsgTexts : OnUserMessageCall(c, r)
    \/ \E k \in AwaitKinds, r \in Rids : Await(k, r)
    \/ \E w \in DOMAIN waiters : WaiterResume(w)
    \/ \E w \in DOMAIN waiters : WaiterTimeout(w)

SpecMsg == Init /\ [][NextMsg]_vars

(* --------------------- claims: correlation ids ------------------------ *)
\* the operations that attempt to resolve a correlation id
ResolveOps == {"route_incoming", "on_user_message", "user_reply"}

\* this step is a resolution attempt for a correlation id
IsAttempt == ev'.op \in ResolveOps /\ ev'.rid # NoRid

\* a future is set at most once and the first payload stays
SetOnce ==
    \A f \in DOMAIN futures :
        /\ futures'[f].sets <= 1
        /\ futures[f].state = "done" => futures'[f] = futures[f]

\* a future is resolved only by an attempt for its id that finds it in the
\* pending-reply map, and that attempt removes the id from the map
ResolutionRemoves ==
    \A f \in DOMAIN futures :
        (futures[f].state = "pending" /\ futures'[f].state = "done") =>
            /\ IsAttempt /\ ev'.rid = futures[f].rid /\ ev'.x = f
            /\ futures'[f].result.content # NoText
            /\ pending_replies[futures[f].rid] = f
            /\ pending_replies'[futures[f].rid] = None

\* the id of this attempt was resolved before
ResolvedBefore ==
    \E f \in DOMAIN futures : futures[f].rid = ev'.rid /\ futures[f].state = "done"

\* C1 as stated: a pending future is resolved at most once, the resolution
\* removes the id from the pending-reply map, and a later resolution attempt
\* for the same id resolves no future.
C1_LaterAttemptResolvesNothing ==
    [][/\ SetOnce
       /\ ResolutionRemoves
       /\ (IsAttempt /\ ResolvedBefore) => futures' = futures]_vars

\* C1 amended: a pending future is resolved at most once, the resolution
\* removes the id from the pending-reply map, and a later attempt for the id
\* resolves no future unless await_reply / await_user_reply registered a new
\* future for the id in between: an attempt touches only the future the map
\* holds for its id, and none when the map holds none.
C1_ResolvedAtMostOnce ==
    [][/\ SetOnce
       /\ ResolutionRemoves
       /\ IsAttempt =>
            /\ \A f \in DOMAIN futures :
                    f # pending_replies[ev'.rid] => futures'[f] = futures[f]
            /\ pending_replies[ev'.rid] = None => futures' = futures
            /\ pending_replies' = [pending_replies EXCEPT ![ev'.rid] = None]]_vars

\* a second attempt for an id that was resolved and removed found nothing to resolve
C1_Witness ==
    /\ ev.op \in ResolveOps /\ ev.rid # NoRid /\ ev.x = None
    /\ pending_replies[ev.rid] = None
    /\ \E f \in DOMAIN futures :
            futures[f].rid = ev.rid /\ futures[f].state = "done" /\ futures[f].sets = 1

\* C10: a route_incoming call to a registered target appends exactly one line
\* to the target's mailbox and sets its wake signal, whether or not reply_to
\* matched a pending id; when reply_to matches no id of the pending-reply map
\* nothing else changes.
C10_RouteDelivers ==
    [][(ev'.op = "route_incoming" /\ ev'.b \in Ids) =>
        LET t == ev'.b IN
        /\ Len(actors'[t].inbox) = Len(actors[t].inbox) + 1
        /\ SubSeq(actors'[t].inbox, 1, Len(actors[t].inbox)) = actors[t].inbox
        /\ actors' = [actors EXCEPT ![t].inbox = actors'[t].inbox]
        /\ sleep_events' = [sleep_events EXCEPT ![t] = TRUE]
        /\ UNCHANGED <<pc, todo, wait, main_id, comms_id, current_actor, waiters,
                       main_inbox, sink, hist, shutting_down, started, now, cpu>>
        /\ ~HasFuture(ev'.rid) => UNCHANGED <<pending_replies, futures>>]_vars

\* a route_incoming whose reply_to matched nothing delivered its line and
\* woke the target while another id was still awaited
C10_Witness ==
    /\ ev.op = "route_incoming" /\ ev.b \in Ids /\ ev.rid # NoRid /\ ev.x = None
    /\ Len(actors[ev.b].inbox) = 1
    /\ sleep_events[ev.b]
    /\ \A f \in DOMAIN futures : futures[f].rid # ev.rid
    /\ \E f \in DOMAIN futures : futures[f].state = "pending"

(* ------------------ specification: request and reply ------------------ *)
\* registry size explored by the request/reply specification
ReplyMaxActors == 2

\* what a completion may hold in this specification: a message to an actor,
\* or a user_reply naming the request id
ReplyEntries ==
    {Raw("route_message", to, NoRid, c, TRUE) : to \in Ids, c \in MsgTexts}
        \cup {Raw("user_reply", None, "r1", c, TRUE) : c \in MsgTexts}

NextReply ==
    \/ Start(FALSE)
    \/ Len(actors) < ReplyMaxActors /\ RequestSpawn(main_id)
    \/ \E a \in Ids, to \in Ids, wfr \in BOOLEAN :
            a # to /\ HandleMessageMonologue(a, to, "r1", "t1", wfr)
    \/ \E a \in Ids : LoopHead(a)
    \/ \E a \in Ids : BuildPrompt(a)
    \/ \E a \in Ids : \E raw \in Completions(ReplyEntries, 1) : LlmReturn(a, raw)
    \/ \E a \in Ids : DoRouteMessage(a)
    \/ \E a \in Ids : DoUserReply(a)
    \/ \E t \in Ids : RouteIncomingCall(t, Payload(Tester, "t2", NoRid, "r1"))
    \/ \E w \in DOMAIN waiters : WaiterResume(w)

SpecReply == Init /\ [][NextReply]_vars

(* ------------------- claims: request and reply ------------------------ *)
\* actor A waits in message_monologue for the reply of the actor that now
\* routes a message back to A
RepliesTo(w) ==
    /\ ev'.op = "route_message" /\ ev'.res = ""
    /\ waiters[w].kind = "message_monologue"
    /\ waiters[w].to = ev'.a
    /\ waiters[w].actor = ev'.b
    /\ futures[waiters[w].fut].state = "pending"

\* C9: when A sent a message_monologue to B with wait_for_reply (request id r)
\* and B then dispatches route_message back to A, A's pending wait on r is
\* resolved.
C9_RouteMessageResolvesWait ==
    [][\A w \in DOMAIN waiters :
           RepliesTo(w) => futures'[waiters[w].fut].state = "done"]_vars

(* -------------------- specification: await_reply ---------------------- *)
AwaitTexts == {"t1", "t2"}

NextAwait ==
    \/ Start(FALSE)
    \/ Await("await_reply", "r1")
    \/ \E t \in Ids \cup {Ghost}, r \in {"r1", NoRid}, c \in AwaitTexts :
            RouteIncomingCall(t, Payload(Tester, c, NoRid, r))
    \/ \E c \in AwaitTexts : OnUserMessageCall(c, "r1")
    \/ \E w \in DOMAIN waiters : WaiterResume(w)

SpecAwait == Init /\ [][NextAwait]_vars

(* ------------------------ claims: await_reply ------------------------- *)
\* a returning await_reply call awaited a future that is done, and returns
\* the payload that future holds
ReturnsResult ==
    (ev'.op = "returned" /\ ev'.res = "await_reply") =>
        /\ ev'.x \in DOMAIN futures
        /\ futures[ev'.x].state = "done"
        /\ futures[ev'.x].rid = ev'.rid
        /\ ev'.text = futures[ev'.x].result.content
        /\ ev'.b = futures[ev'.x].result.from_id
        /\ \E w \in DOMAIN waiters :
                /\ waiters[w].kind = "await_reply" /\ waiters[w].fut = ev'.x
                /\ waiters' = Without(waiters, w)

\* a future becomes done only in a call of one of ops that names its id, and
\* then holds that call's payload
ResolvedOnlyBy(ops) ==
    \A f \in DOMAIN futures :
        (futures[f].state = "pending" /\ futures'[f].state = "done") =>
            /\ ev'.op \in ops
            /\ ev'.rid = futures[f].rid
            /\ futures'[f].result = Payload(ev'.a, ev'.text, NoRid, ev'.rid)

\* C11 as stated: await_reply(id) does not return before some route_incoming
\* call carries reply_to = id, and once such a call happens while the waiter is
\* pending, await_reply returns exactly that call's payload.
C11_ReturnsOnlyAfterRouteIncoming ==
    [][ReturnsResult /\ SetOnce /\ ResolvedOnlyBy({"route_incoming"})]_vars

\* C11 amended: await_reply(id) does not return before a route_incoming call
\* carries reply_to = id or an on_user_message call carries correlation_id = id,
\* and it returns exactly the payload of the first such call that happens while
\* the waiter is pending.
C11_ReturnsOnlyAfterResolution ==
    [][ReturnsResult /\ SetOnce /\ ResolvedOnlyBy(ResolveOps)]_vars

\* an await_reply call returned the payload of the route_incoming call that
\* resolved its id, and the line of that call is in Main's mailbox
C11_Witness ==
    /\ ev.op = "returned" /\ ev.res = "await_reply" /\ ev.b = Tester /\ ev.text = "t2"
    /\ futures[ev.x].result = Payload(Tester, "t2", NoRid, "r1")
    /\ pending_replies["r1"] = None
    /\ main_id \in Ids
    /\ actors[main_id].inbox = <<Line("from reply_to", Tester, "r1", "t2")>>

(* ---------------------- claims: on_user_message ----------------------- *)
\* exactly this line is appended to Main's mailbox and no other actor changes
MainGets(line) ==
    /\ main_id \in Ids
    /\ actors' = [actors EXCEPT ![main_id].inbox = Append(@, line)]

\* C12: on_user_message(text, cid): when cid matches a pending ask, that ask
\* is resolved with the text, cid is consumed and exactly one audit line is
\* appended to Main's mailbox; otherwise exactly one line carrying the text is
\* appended to Main's mailbox and Main's wake signal is set.  In both cases
\* no other actor's mailbox changes.
C12_OnUserMessage ==
    [][ev'.op = "on_user_message" =>
        LET cid == ev'.rid
            text == ev'.text
        IN  IF cid # NoRid /\ pending_replies[cid] # None
               /\ futures[pending_replies[cid]].state = "pending"
            THEN /\ futures'[pending_replies[cid]].state = "done"
                 /\ futures'[pending_replies[cid]].result.content = text
                 /\ pending_replies'[cid] = None
                 /\ MainGets(Line("USER replied cid", User, cid, text))
            ELSE /\ MainGets(Line("USER", User, NoRid, text))
                 /\ sleep_events'[main_id]]_vars

(* ------------------------ sleep_with_early_wake ----------------------- *)
NotCleared(target_id) == sleep_events

\* ev = self._sleep_events.setdefault(target_id, Event()); ev.clear()
Cleared(target_id) == [sleep_events EXCEPT ![target_id] = FALSE]

\* a call suspended in wait_for(ev.wait(), timeout): Event.wait returns at once
\* when the Event is set, else it waits on a future that set() resolves
Sleeper(target_id, set) ==
    [kind |-> "sleep", rid |-> NoRid, fut |-> None, actor |-> None,
     to |-> target_id, woken |-> set]

\* Event.set() resolved the futures of the calls waiting on the Event; a later
\* clear() does not take that back
Settled(ws, target_id) ==
    [w \in DOMAIN ws |->
        IF ws[w].kind = "sleep" /\ ws[w].to = target_id /\ sleep_events[target_id]
        THEN [ws[w] EXCEPT !.woken = TRUE] ELSE ws[w]]

\* the future of the call's ev.wait() is resolved
Woken(ws, evs, w) == ws[w].woken \/ evs[ws[w].to]

\* a direct call of sleep_with_early_wake(target_id, seconds), seconds > 0, up
\* to its await (test_sleep_with_early_wake)
SleepCall(target_id) ==
    /\ cpu = None
    /\ started
    /\ Len(waiters) < MaxWaiters
    /\ sleep_events' = Cleared(target_id)
    /\ waiters' = Append(Settled(waiters, target_id),
                         Sleeper(target_id, Cleared(target_id)[target_id]))
    /\ ev' = Event("sleep", None, target_id, NoRid, "", None)
    /\ UNCHANGED <<down, actors, pc, todo, wait, main_id, comms_id, current_actor,
                   pending_replies, futures, main_inbox, sink, hist, shutting_down,
                   started, now, cpu, tools>>

\* a direct call of notify_actor_message(target_id)
NotifyCall(target_id) ==
    /\ cpu = None
    /\ started
    /\ sleep_events' = Notified(target_id)
    /\ ev' = Event("notify", None, target_id, NoRid, "", None)
    /\ UNCHANGED <<down, actors, pc, todo, wait, main_id, comms_id, current_actor,
                   pending_replies, futures, waiters, main_inbox, sink, hist,
                   shutting_down, started, now, cpu, tools>>

\* ev.wait() returned: return True
SleepWake(w) ==
    /\ cpu = None
    /\ waiters[w].kind = "sleep"
    /\ waiters[w].actor = None
    /\ Woken(waiters, sleep_events, w)
    /\ waiters' = Without(waiters, w)
    /\ ev' = Event("slept", waiters[w].actor, waiters[w].to, NoRid, "true", None)
    /\ UNCHANGED <<down, actors, pc, todo, wait, main_id, comms_id, current_actor,
                   pending_replies, futures, sleep_events, main_inbox, sink, hist,
                   shutting_down, started, now, cpu, tools>>

\* the timeout elapsed first: except asyncio.TimeoutError: return False
SleepTimeout(w) ==
    /\ cpu = None
    /\ waiters[w].kind = "sleep"
    /\ waiters[w].actor = None
    /\ ~Woken(waiters, sleep_events, w)
    /\ waiters' = Without(waiters, w)
    /\ ev' = Event("slept", waiters[w].actor, waiters[w].to, NoRid, "false", None)
    /\ UNCHANGED <<down, actors, pc, todo, wait, main_id, comms_id, current_actor,
                   pending_replies, futures, sleep_events, main_inbox, sink, hist,
                   shutting_down, started, now, cpu, tools>>

\* SleepAction with seconds > 0: self._sleep(seconds) suspends the dispatch in
\* sleep_with_early_wake(self.state.id, seconds); current_actor stays set
DoSleep(a) ==
    /\ Dispatching(a, "sleep")
    /\ Len(waiters) < MaxWaiters
    /\ sleep_events' = Cleared(a)
    /\ waiters' = Append(Settled(waiters, a),
                         [Sleeper(a, Cleared(a)[a]) EXCEPT !.actor = a])
    /\ actors' = Marked(actors, a)
    /\ pc' = [pc EXCEPT ![a] = "sleep"]
    /\ current_actor' = a
    /\ cpu' = None
    /\ ev' = Event("sleep", a, a, NoRid, "", None)
    /\ UNCHANGED <<down, todo, wait, main_id, comms_id, pending_replies, futures,
                   main_inbox, sink, hist, shutting_down, started, now, tools>>

\* the actor's sleep is over (woken or timed out): _remember, finally
\* current_actor = None, then the next action or the end of the step; the
\* timeout of wait_for(ev.wait(), timeout = inf) never elapses
ActorSleepDone(a) ==
    /\ cpu = None
    /\ pc[a] = "sleep"
    /\ CanRun(a)
    /\ \E w \in DOMAIN waiters :
        /\ waiters[w].kind = "sleep" /\ waiters[w].actor = a
        /\ Woken(waiters, sleep_events, w) \/ Head(todo[a]).id # Infinity
        /\ waiters' = Without(waiters, w)
        /\ ev' = Event("slept", a, a, NoRid,
                       IF Woken(waiters, sleep_events, w) THEN "true" ELSE "false", None)
    /\ actors' = StepDone(actors, a)
    /\ pc' = [pc EXCEPT ![a] = IF Tail(todo[a]) = <<>> THEN "delay2" ELSE "dispatch"]
    /\ Handled(a)
    /\ down' = Ran({a})
    /\ UNCHANGED <<wait, main_id, comms_id, pending_replies, futures, sleep_events,
                   main_inbox, sink, hist, shutting_down, started, now, tools>>

(* ----------------------- specification: sleep ------------------------- *)
NextSleep ==
    \/ \E wc \in BOOLEAN : Start(wc)
    \/ \E t \in Ids : SleepCall(t)
    \/ \E t \in Ids : NotifyCall(t)
    \/ \E t \in Ids : RouteIncomingCall(t, Payload(Tester, "t1", NoRid, NoRid))
    \/ \E w \in DOMAIN waiters : SleepWake(w)
    \/ \E w \in DOMAIN waiters : SleepTimeout(w)

SpecSleep == Init /\ [][NextSleep]_vars

(* --------------------------- claims: sleep ---------------------------- *)
\* the sleep_with_early_wake calls in progress
Sleepers == {w \in DOMAIN waiters : waiters[w].kind = "sleep"}

\* this step is a notify_actor_message(t), direct or through route_incoming
IsNotify(t) == ev'.op \in {"notify", "route_incoming"} /\ ev'.b = t /\ ev'.res = ""

\* this step is the return of call w
Returns(w) ==
    ev'.op = "slept" /\ ev'.b = waiters[w].to /\ waiters' = Without(waiters, w)

\* C13: sleep_with_early_wake(id, s) returns true when notify_actor_message(id)
\* (directly or through route_incoming to id) happens after the call started
\* and before s elapses, and returns false when the timeout elapses with no
\* such notification: a notification during the call wakes it, a woken call
\* stays woken, and the call returns true exactly when it was woken.
C13_TrueIffNotifiedDuringCall ==
    [][/\ ev'.op # "slept" =>
            \A w \in Sleepers :
                /\ IsNotify(waiters[w].to) => Woken(waiters', sleep_events', w)
                /\ Woken(waiters, sleep_events, w) => Woken(waiters', sleep_events', w)
                /\ (~Woken(waiters, sleep_events, w) /\ ~IsNotify(waiters[w].to))
                        => ~Woken(waiters', sleep_events', w)
       /\ ev'.op = "slept" =>
            \E w \in Sleepers :
                /\ Returns(w)
                /\ ev'.res = IF Woken(waiters, sleep_events, w) THEN "true" ELSE "false"]_vars

\* a call was woken by a route_incoming to its id, whose line is in the
\* mailbox and whose signal is still set, and returned true
C13_Witness ==
    /\ ev.op = "slept" /\ ev.res = "true"
    /\ sleep_events[ev.b]
    /\ actors[ev.b].inbox # <<>>

\* C14: a notify_actor_message(id) that happened before a
\* sleep_with_early_wake(id, s) call began never makes that call return true:
\* the wake signal is cleared at the start of every call, so a call starts
\* not woken whatever the signal was, and returns true only when woken.
C14_StaleWakeIgnored ==
    [][/\ ev'.op = "sleep" =>
            /\ ~sleep_events'[ev'.b]
            /\ ~Woken(waiters', sleep_events', Len(waiters'))
       /\ (ev'.op = "slept" /\ ev'.res = "true") =>
            \E w \in Sleepers : Returns(w) /\ Woken(waiters, sleep_events, w)]_vars

\* the signal was set when the call began, and the call timed out
C14_Witness ==
    /\ ev.op = "slept" /\ ev.res = "false"
    /\ actors[ev.b].inbox # <<>>

(* ----------------------- injections toward Main ----------------------- *)
\* InjectAction: inject_to_main(InjectionModel(from_id, content))
DoInject(a) ==
    /\ Dispatching(a, "inject")
    /\ Len(hist.injected) < MaxInjections
    /\ main_inbox' = Append(main_inbox, Injection(a, Head(todo[a]).content))
    /\ hist' = [hist EXCEPT !.injected = Append(@, Injection(a, Head(todo[a]).content))]
    /\ actors' = StepDone(Marked(actors, a), a)
    /\ pc' = PcAfter(a)
    /\ Handled(a)
    /\ ev' = Event("inject", a, None, NoRid, "", None)
    /\ UNCHANGED <<down, wait, main_id, comms_id, pending_replies, futures, waiters,
                   sleep_events, sink, shutting_down, started, now, tools>>

\* _main_sink: inj = await self._main_inbox.get(); await self.on_injection(inj, ...)
SinkPump ==
    /\ cpu = None
    /\ down.pump
    /\ CanRun(Pump)
    /\ main_inbox # <<>>
    /\ sink' = Append(sink, Head(main_inbox))
    /\ main_inbox' = Tail(main_inbox)
    /\ down' = Ran({Pump})
    /\ ev' = TaskEv
    /\ UNCHANGED <<actors, pc, todo, wait, main_id, comms_id, current_actor,
                   pending_replies, futures, waiters, sleep_events, shutting_down,
                   started, now, cpu, hist, tools>>

(* ------------------------------ shutdown ------------------------------ *)
\* the tasks of _task_group: a done task discards itself (_track_task)
Tracked ==
    {a \in Ids : pc[a] \notin {"done", "cancelled"}}
        \cup (IF down.pump THEN {Pump} ELSE {})

\* shutdown() with _shutting_down set: return
ShutdownAgain ==
    /\ cpu = None
    /\ shutting_down
    /\ ev' = Event("shutdown", None, None, NoRid, "noop", None)
    /\ UNCHANGED <<actors, pc, todo, wait, main_id, comms_id, current_actor,
                   pending_replies, futures, waiters, sleep_events, main_inbox, sink, hist,
                   shutting_down, started, now, cpu, down, tools>>

NoFlagTest == TRUE

\* if self._shutting_down: return
FlagTest == ~shutting_down

\* shutdown() up to its asyncio.sleep(0): the flag, and every actor not running
ShutdownBegin ==
    /\ cpu = None
    /\ FlagTest
    /\ down.phase # "yielded"
    /\ shutting_down' = TRUE
    /\ started' = FALSE
    /\ actors' = [i \in Ids |-> [actors[i] EXCEPT !.running = FALSE]]
    /\ down' = [phase |-> "yielded", ran |-> {}, pump |-> down.pump]
    /\ ev' = Event("shutdown", None, None, NoRid, "begun", None)
    /\ UNCHANGED <<pc, todo, wait, main_id, comms_id, current_actor,
                   pending_replies, futures, waiters, sleep_events, main_inbox, sink, hist,
                   now, cpu, tools>>

NotCancelled(a) == pc[a]

\* t.cancel() and the task's end: a finished task stays as it is
Cancelled(a) == IF pc[a] = "done" THEN "done" ELSE "cancelled"

\* CancelledError is thrown into run() where it is suspended, and its finally
\* runs; a task that never ran is cancelled before run() enters its try
Unwound(a) ==
    IF pc[a] \in {"start", "done", "cancelled"} THEN actors[a] ELSE Finally(actors, a)[a]

\* shutdown() resumes: every task of _task_group is cancelled and awaited, then
\* the set is cleared.  The tasks that were ready have run before.
ShutdownEnd ==
    /\ cpu = None
    /\ down.phase = "yielded"
    /\ \A a \in Ids : pc[a] = "start" => a \in down.ran
    /\ pc' = [a \in Ids |-> Cancelled(a)]
    /\ actors' = [a \in Ids |-> Unwound(a)]
    /\ waiters' = SelectSeq(waiters, LAMBDA v : ~(v.kind = "sleep" /\ v.actor # None))
    /\ current_actor' = IF \E a \in Ids : pc[a] \in {"sleep", "idle"}
                        THEN None ELSE current_actor
    /\ down' = [phase |-> "returned", ran |-> {}, pump |-> FALSE]
    /\ ev' = Event("shutdown returns", None, None, NoRid, "", None)
    /\ UNCHANGED <<todo, wait, main_id, comms_id, pending_replies, futures, sleep_events,
                   main_inbox, sink, hist, shutting_down, started, now, cpu, tools>>

(* --------------------- specification: shutdown ------------------------ *)
\* registry size explored by the shutdown specification
DownMaxActors == 2

\* the sleep actions of a completion that will be dispatched
NumSleeps(raw) == Len(SelectSeq(parse_actions(raw), LAMBDA e : e.type = "sleep"))

\* what a completion may hold in this specification
DownEntries ==
    {Raw("spawn", None, NoRid, NoText, TRUE), Raw("sleep", None, NoRid, NoText, TRUE)}

NextDown ==
    \/ Len(actors) = 0 /\ Start(FALSE)
    \/ \E a \in Ids : LoopHead(a)
    \/ \E a \in Ids : BuildPrompt(a)
    \/ \E a \in Ids : \E raw \in Completions(DownEntries, 1) :
            /\ Len(actors) + NumSpawns(raw) <= DownMaxActors
            /\ Len(waiters) + NumSleeps(raw) <= MaxWaiters
            /\ LlmReturn(a, raw)
    \/ \E a \in Ids : DoSpawn(a)
    \/ \E a \in Ids : DoSleep(a)
    \/ \E a \in Ids : ActorSleepDone(a)
    \/ ShutdownBegin
    \/ ShutdownAgain
    \/ ShutdownEnd

SpecDown == Init /\ [][NextDown]_vars

\* the event loop runs every ready task, and shutdown() when its sleep(0) is over
SpecDownLive ==
    /\ SpecDown
    /\ WF_vars(ShutdownEnd)
    /\ WF_vars(\E a \in Ids : LoopHead(a))
    /\ WF_vars(\E a \in Ids : DoSpawn(a) \/ DoSleep(a))

(* -------------------------- claims: shutdown -------------------------- *)
\* C15: shutdown() always returns, and when it returns every tracked task
\* (each actor run loop and the injection-sink pump) has finished and the
\* tracked-task set is empty - also when actors are blocked in
\* sleep_with_early_wake or in a completion request.
C15_ShutdownReturnsAllFinished ==
    /\ [](ev.op = "shutdown returns" => Tracked = {})
    /\ (down.phase = "yielded") ~> (down.phase = "returned")

\* shutdown() returned after it cancelled two actors, one of them blocked in
\* the sleep_with_early_wake of a sleep action
C15_Witness ==
    /\ ev.op = "shutdown returns"
    /\ Len(actors) = 2
    /\ \A a \in Ids : pc[a] = "cancelled"
    /\ \E a \in Ids : todo[a] # <<>> /\ Head(todo[a]).type = "sleep"
    /\ waiters = <<>>

\* C16: a second shutdown() call after the first, with no start() in between,
\* is a no-op: it changes no actor state and cancels no task.
C16_SecondShutdownNoOp ==
    [][(ev'.op = "shutdown" /\ shutting_down) =>
        /\ ev'.res = "noop"
        /\ UNCHANGED <<actors, pc, todo, wait, main_id, comms_id, current_actor,
                       pending_replies, futures, waiters, sleep_events, main_inbox,
                       sink, hist, shutting_down, started, now, cpu, down>>]_vars

\* a second call was made after the first had returned and cancelled the tasks
C16_Witness ==
    /\ ev.op = "shutdown" /\ ev.res = "noop"
    /\ down.phase = "returned"
    /\ \E a \in Ids : pc[a] = "cancelled"

(* ------------------------ claims: run loop exit ----------------------- *)
\* C19: whenever a non-immortal actor's run loop has exited - through a
\* soft-stop, step-budget exhaustion, or cancellation - that actor's running
\* flag is false.
C19_ExitedMeansNotRunning ==
    \A a \in Ids :
        (~actors[a].immortal /\ pc[a] \in {"done", "cancelled"}) => ~actors[a].running

(* ----------------- specification: start after shutdown ---------------- *)
\* the role start() gives an actor: Main is spawned immortal with the LLM on,
\* Comms immortal with llm=False, every other actor is spawned not immortal
RoleGiven(a) ==
    IF ~actors[a].immortal THEN "sub"
    ELSE IF actors[a].use_llm THEN "Main" ELSE "Comms"

\* the actors the registry holds with a role
Holding(role) == {a \in Ids : RoleGiven(a) = role}

\* start() is called on a new orchestrator or after a shutdown() has returned
NextRestart ==
    \/ \E wc \in BOOLEAN : Start(wc)
    \/ \E a \in Ids : LoopHead(a)
    \/ ShutdownBegin
    \/ ShutdownAgain
    \/ ShutdownEnd

SpecRestart == Init /\ [][NextRestart]_vars

\* C18: when start() is never called twice without a shutdown() in between,
\* the registry holds at most one Main actor and at most one Comms actor in
\* every reachable state, also after start(); shutdown(); start().
C18_AtMostOneMainAndComms ==
    /\ Cardinality(Holding("Main")) <= 1
    /\ Cardinality(Holding("Comms")) <= 1

(* ------------------ specification: a handler that raises -------------- *)
ErrMaxActions == 2

\* what a completion may hold in this specification: a message to an actor of
\* the registry or to an id it does not hold (route_incoming raises KeyError),
\* and stop_self
ErrEntries ==
    {Raw("route_message", to, NoRid, "t1", TRUE) : to \in Ids \cup {Ghost}}
        \cup {Raw("stop_self", None, NoRid, NoText, TRUE)}

\* the messages of a completion that reach a mailbox
NumDelivered(raw) ==
    Cardinality({k \in DOMAIN raw : raw[k].type = "route_message" /\ raw[k].id \in Ids})

NextErr ==
    \/ Start(FALSE)
    \/ \E a \in Ids : LoopHead(a)
    \/ \E a \in Ids : BuildPrompt(a)
    \/ \E a \in Ids : \E raw \in Completions(ErrEntries, ErrMaxActions) :
            /\ NumDelivered(raw) <= MaxInbox
            /\ LlmReturn(a, raw)
    \/ \E a \in Ids : DoRouteMessage(a)
    \/ \E a \in Ids : DoStopSelf(a)

SpecErr == Init /\ [][NextErr]_vars

(* ------------------- claims: a handler that raises -------------------- *)
\* the step is the handler of actor a raising while a dispatches its list
Raises(a) == ev'.op = "route_message" /\ ev'.a = a /\ ev'.res # ""

\* C20: when a handler raises while an actor dispatches a list of actions,
\* the error text is stored in last_error and appended to the activity log,
\* every later action of the list is still dispatched in order, and the
\* actor's run loop goes on with its next step.
C20_HandlerErrorIsContained ==
    [][\A a \in Ids :
        /\ Raises(a) =>
            /\ actors'[a].last_error = ev'.res
            /\ actors'[a].errors = actors[a].errors + 1
            /\ actors'[a].running = actors[a].running
            /\ todo'[a] = Tail(todo[a])
            /\ IF Tail(todo[a]) # <<>>
               THEN /\ pc'[a] = "dispatch" /\ cpu' = a
                    /\ actors'[a].step = actors[a].step
               ELSE /\ pc'[a] = "delay2" /\ cpu' = None
                    /\ actors'[a].step = actors[a].step + 1
        /\ (cpu = a /\ pc[a] = "dispatch") =>
            /\ ev'.op = Head(todo[a]).type /\ ev'.a = a
            /\ todo'[a] = Tail(todo[a])
        /\ (pc[a] = "delay2" /\ pc'[a] # "delay2") =>
            pc'[a] = (IF LoopCond(a) THEN "delay1" ELSE "done")]_vars

\* the first action of a list raised, the second one was dispatched after it
\* (the error text was reset for it), and the actor is in the completion
\* request of its next step
C20_Witness ==
    \E a \in Ids :
        /\ actors[a].errors = 1 /\ actors[a].last_error = ""
        /\ actors[a].step = 1 /\ pc[a] = "llm"
        /\ todo[a] = <<>>

(* ------------------- claims: the capability layer --------------------- *)
\* the tags only the capability layer defines
CapabilityOnly == CapabilityTags \ PrimitiveTags

\* C21: for every action of a model-driven actor's completion whose tag the
\* protocol layer does not define but the capability layer does
\* (open_monologue, message_monologue, list_monologue, kill_monologue), the
\* actor's step invokes the capability-layer handler: the action is among
\* those the step dispatches.
C21_CapabilityActionDispatched ==
    [][ev'.op = "completion" =>
        \A k \in DOMAIN ev'.raw :
            ev'.raw[k].type \in CapabilityOnly =>
                \E j \in DOMAIN todo'[ev'.a] : todo'[ev'.a][j] = ev'.raw[k]]_vars

(* ------------------------ the completion text ------------------------- *)
\* what the provider returns: a text of one of these kinds; raw is the
\* "actions" list of the JSON object in it, if it holds one
TextKinds ==
    {"json object", "prose with json", "json not an object", "no json",
     "prose with broken json"}

Text(kind, raw) == [kind |-> kind, raw |-> raw]

\* {"type": "idle", "seconds": 1}: for an idle entry the id field holds the seconds
IdleOne == Raw("idle", 1, NoRid, NoText, TRUE)

\* what json.loads gave: a dict with its "actions" (data.get("actions", [])),
\* or a value that is no dict (a list, a number, a string)
Dict(raw) == [dict |-> TRUE, actions |-> raw]
NotDict == [dict |-> FALSE, actions |-> <<>>]

\* extract_json: json.loads(text); on JSONDecodeError the first "{" to the last
\* "}" of the text; when there is none, or it does not parse, one idle second
extract_json(text) ==
    CASE text.kind = "json object" -> Dict(text.raw)
      [] text.kind = "json not an object" -> NotDict
      [] text.kind = "prose with json" -> Dict(text.raw)
      [] OTHER -> Dict(<<IdleOne>>)

\* an exception leaves run(): the finally of run, and the task is finished
RunRaises(a, e, kind) ==
    /\ cpu = None
    /\ CanRun(a)
    /\ down' = Ran({a})
    /\ pc[a] = "llm"
    /\ pc' = [pc EXCEPT ![a] = "done"]
    /\ actors' = [actors EXCEPT ![a] = Finally(actors, a)[a]]
    /\ ev' = EventT("run raises", a, None, NoRid, e, None, kind)
    /\ UNCHANGED <<todo, wait, main_id, comms_id, current_actor, sleep_events,
                   main_inbox, sink, hist, shutting_down, started, now, cpu, corrVars, tools>>

\* raw = await self.o.llm.acomplete(...) raises (the OpenAI adapter raises
\* RuntimeError on a connection or rate-limit error): nothing in run() catches it
LlmRaise(a) == RunRaises(a, "RuntimeError", NoText)

\* the completion returns a text: data = extract_json(raw);
\* data.get("actions", []) raises AttributeError when data is no dict
LlmReturnText(a, text) ==
    IF extract_json(text).dict
    THEN LlmStep(a, extract_json(text).actions, text.kind)
    ELSE RunRaises(a, "AttributeError", text.kind)

\* IdleAction: await asyncio.sleep(max(seconds, 0)) suspends the dispatch;
\* current_actor stays set
DoIdle(a) ==
    /\ Dispatching(a, "idle")
    /\ actors' = Marked(actors, a)
    /\ pc' = [pc EXCEPT ![a] = "idle"]
    /\ current_actor' = a
    /\ cpu' = None
    /\ ev' = Event("idle", a, None, NoRid, "", Head(todo[a]).id)
    /\ UNCHANGED <<down, todo, wait, main_id, comms_id, sleep_events, main_inbox,
                   sink, hist, shutting_down, started, now, corrVars, tools>>

\* the idle time is over: _remember, finally current_actor = None, then the
\* next action or the end of the step; the timer of asyncio.sleep(inf) never
\* fires
IdleDone(a) ==
    /\ cpu = None
    /\ pc[a] = "idle"
    /\ Head(todo[a]).id # Infinity
    /\ CanRun(a)
    /\ actors' = StepDone(actors, a)
    /\ pc' = [pc EXCEPT ![a] = IF Tail(todo[a]) = <<>> THEN "delay2" ELSE "dispatch"]
    /\ Handled(a)
    /\ down' = Ran({a})
    /\ ev' = Event("idled", a, None, NoRid, "", None)
    /\ UNCHANGED <<wait, main_id, comms_id, sleep_events, main_inbox, sink, hist,
                   shutting_down, started, now, corrVars, tools>>

(* ------------------ specification: the completion text ---------------- *)
\* registry size explored by the completion specification
LlmMaxActors == 2

\* what a completion's "actions" may hold in this specification: an idle, a
\* stop_self, an entry whose fields do not validate, and a capability tag
LlmEntries ==
    {Raw("idle", 1, NoRid, NoText, TRUE), Raw("stop_self", None, NoRid, NoText, TRUE),
     Raw("idle", None, NoRid, NoText, FALSE),
     Raw("list_monologue", None, NoRid, NoText, TRUE)}

\* the texts the provider may return
LlmTexts ==
    {Text(k, raw) : k \in {"json object", "prose with json"},
                    raw \in Completions(LlmEntries, MaxActions)}
        \cup {Text(k, <<>>) : k \in {"json not an object", "no json",
                                      "prose with broken json"}}

NextLlm ==
    \/ Start(FALSE)
    \/ Len(actors) < LlmMaxActors /\ RequestSpawn(main_id)
    \/ \E a \in Ids : LoopHead(a)
    \/ \E a \in Ids : BuildPrompt(a)
    \/ \E a \in Ids : \E text \in LlmTexts : LlmReturnText(a, text)
    \/ \E a \in Ids : LlmRaise(a)
    \/ \E a \in Ids : DoIdle(a)
    \/ \E a \in Ids : IdleDone(a)
    \/ \E a \in Ids : DoStopSelf(a)

SpecLlm == Init /\ [][NextLlm]_vars

(* -------------------- claims: the completion request ------------------ *)
\* C22: if the completion request of an actor step fails with an exception,
\* the actor's run loop does not end: the failure is recorded as that actor's
\* error, and the actor goes on to the trailing delay of the step, after which
\* it issues its next request.
C22_CompletionFailureContained ==
    [][\A a \in Ids :
        (ev'.op = "run raises" /\ ev'.a = a /\ ev'.res = "RuntimeError") =>
            /\ pc'[a] = "delay2"
            /\ actors'[a].last_error = "RuntimeError"]_vars

\* C23: for every completion text the provider returns (a JSON object,
\* prose-wrapped JSON, JSON that is not an object, unparseable text) the actor
\* step completes without raising and the loop continues; when no JSON can be
\* extracted from the text, the step dispatches exactly one idle action of
\* one second.
C23_EveryTextCompletesTheStep ==
    [][\A a \in Ids :
        (ev'.a = a /\ ev'.text \in TextKinds) =>
            /\ ev'.op = "completion"
            /\ pc'[a] \in {"dispatch", "delay2"}
            /\ ev'.text \in {"no json", "prose with broken json"} =>
                    todo'[a] = <<IdleOne>>]_vars

(* --------------------- specification: parse_actions ------------------- *)
\* entries in one completion of the parse specification
ParseMaxActions == 3

\* what a completion's "actions" may hold in this specification: two
\* primitive entries, a primitive entry with invalid fields, an unknown tag
ParseEntries ==
    {Raw("idle", 1, NoRid, NoText, TRUE), Raw("stop_self", None, NoRid, NoText, TRUE),
     Raw("stop_child", None, NoRid, NoText, FALSE),
     Raw("dance", None, NoRid, NoText, TRUE)}

NextParse ==
    \/ Start(FALSE)
    \/ \E a \in Ids : LoopHead(a)
    \/ \E a \in Ids : BuildPrompt(a)
    \/ \E a \in Ids : \E raw \in Completions(ParseEntries, ParseMaxActions) :
            LlmReturn(a, raw)
    \/ \E a \in Ids : DoIdle(a)
    \/ \E a \in Ids : IdleDone(a)
    \/ \E a \in Ids : DoStopSelf(a)

SpecParse == Init /\ [][NextParse]_vars

(* ------------------------ claims: parse_actions ----------------------- *)
\* the positions of a raw list whose entry validates as a primitive kind
Kept(raw) == {k \in DOMAIN raw : raw[k].type \in PrimitiveTags /\ raw[k].valid}

\* the j-th of these positions
NthKept(raw, j) ==
    CHOOSE k \in Kept(raw) : Cardinality({i \in Kept(raw) : i < k}) = j - 1

\* C24: parse_actions over a list of raw entries returns exactly the typed
\* actions of the entries that validate as one of the eleven primitive kinds,
\* in their original order, and drops every entry with an unknown tag or
\* invalid fields without raising: the step goes on with that list.
C24_ParseKeepsValidInOrder ==
    [][ev'.op = "completion" =>
        LET a == ev'.a
            raw == ev'.raw
        IN  /\ Len(todo'[a]) = Cardinality(Kept(raw))
            /\ \A j \in DOMAIN todo'[a] : todo'[a][j] = raw[NthKept(raw, j)]
            /\ pc'[a] = (IF Kept(raw) = {} THEN "delay2" ELSE "dispatch")]_vars

\* a list of three entries: the first was dropped, the other two are kept in order
C24_Witness ==
    /\ ev.op = "completion"
    /\ Len(ev.raw) = 3
    /\ ev.raw[1].type \notin PrimitiveTags
    /\ ev.raw[2].type = "stop_self" /\ ev.raw[3].type = "idle"
    /\ todo[ev.a] = <<ev.raw[2], ev.raw[3]>>

(* ------------------------------ _run_tool ----------------------------- *)
\* the names the Tool Registry holds
RegisteredTools == {"test.echo"}

\* a tool entry: its name, and whether its args validate against the tool's model
ToolEntry(name, args_ok) ==
    Raw("tool", None, IF args_ok THEN "args ok" ELSE "args bad", name, TRUE)

\* what the tool's handler does once it is called: it returns a result whose
\* json.dumps text has len characters, or it raises
Returned(len) == [ok |-> TRUE, len |-> len]
Raised == [ok |-> FALSE, len |-> 0]

\* ToolRegistry.call: get / get_model raise ToolError for an unknown name, the
\* model raises ValidationError (re-raised as ToolError) for bad args, then the
\* handler runs
ToolFailure(e, out) ==
    IF e.content \notin RegisteredTools THEN "Unknown tool"
    ELSE IF e.rid = "args bad" THEN "Validation failed"
    ELSE IF ~out.ok THEN "handler raised"
    ELSE ""

\* the whole payload is enqueued
NoSnippet(len) == len

\* snippet = payload if len(payload) <= 500 else payload[:497] + "...": its length
Snippet(len) == IF len <= 500 THEN len ELSE 497 + 3

\* ToolAction: result = await tool_registry.call(name, **args); tool_calls += 1;
\* inbox.put("[tool name] snippet"); an exception of call is caught by
\* _dispatch_actions
DoTool(a, out) ==
    /\ Dispatching(a, "tool")
    /\ Room(a)
    /\ LET e == Head(todo[a])
           err == ToolFailure(e, out)
           len == IF err = "" THEN out.len ELSE 0
           acts1 == Marked(actors, a)
       IN  /\ actors' = StepDone(
                 IF err = ""
                 THEN Delivered([acts1 EXCEPT ![a].tool_calls = @ + 1], a,
                                Line("tool", a, NoRid, <<e.content, Snippet(len)>>))
                 ELSE Failed(acts1, a, err), a)
           /\ ev' = EventT("tool", a, None, NoRid, err, len, e.content)
    /\ pc' = PcAfter(a)
    /\ Handled(a)
    /\ UNCHANGED <<down, wait, main_id, comms_id, sleep_events, main_inbox, sink, hist,
                   shutting_down, started, now, corrVars, tools>>

(* ------------------------ specification: tools ------------------------ *)
\* actions in one completion of the tool specification
ToolMaxActions == 2

\* lengths of the serialized results the tools return
PayloadLens == {2, 500, 501}

\* what a completion may hold in this specification
ToolEntries ==
    {ToolEntry(n, ok) : n \in {"test.echo", "nope"}, ok \in BOOLEAN}
        \cup {Raw("stop_self", None, NoRid, NoText, TRUE)}

\* the tool entries of a completion
NumTools(raw) == Cardinality({k \in DOMAIN raw : raw[k].type = "tool"})

NextTool ==
    \/ Start(FALSE)
    \/ \E a \in Ids : LoopHead(a)
    \/ \E a \in Ids : BuildPrompt(a)
    \/ \E a \in Ids : \E raw \in Completions(ToolEntries, ToolMaxActions) :
            /\ NumTools(raw) <= MaxInbox
            /\ LlmReturn(a, raw)
    \/ \E a \in Ids : \E out \in {Returned(n) : n \in PayloadLens} \cup {Raised} :
            DoTool(a, out)
    \/ \E a \in Ids : DoStopSelf(a)

SpecTool == Init /\ [][NextTool]_vars

(* --------------------------- claims: tools ---------------------------- *)
\* C25: a tool action that the Tool Registry completes increments the actor's
\* tool_calls by exactly one and enqueues exactly one message, the serialized
\* result cut to at most 500 characters, into the actor's own mailbox; a tool
\* action that fails (unknown tool, argument validation failure) leaves
\* tool_calls and the mailbox unchanged, sets last_error, and does not stop
\* the loop.
C25_ToolCallAccounting ==
    [][ev'.op = "tool" =>
        LET a == ev'.a
            new == actors'[a]
            old == actors[a]
        IN  /\ (ev'.text \notin RegisteredTools \/ Head(todo[a]).rid = "args bad") => ev'.res # ""
            /\ \A i \in Ids \ {a} : actors'[i] = actors[i]
            /\ new.running = old.running
            /\ pc'[a] = (IF Tail(todo[a]) = <<>> THEN "delay2" ELSE "dispatch")
            /\ IF ev'.res = ""
               THEN /\ new.tool_calls = old.tool_calls + 1
                    /\ Len(new.inbox) = Len(old.inbox) + 1
                    /\ SubSeq(new.inbox, 1, Len(old.inbox)) = old.inbox
                    /\ LET line == new.inbox[Len(new.inbox)]
                       IN  /\ line.tag = "tool" /\ line.content[1] = ev'.text
                           /\ line.content[2] <= 500
                           /\ ev'.x <= 500 => line.content[2] = ev'.x
                    /\ new.last_error = ""
               ELSE /\ new.tool_calls = old.tool_calls
                    /\ new.inbox = old.inbox
                    /\ new.last_error = ev'.res]_vars

\* an actor whose earlier tool action failed has now completed one whose
\* result was longer than 500 characters
C25_Witness ==
    /\ ev.op = "tool" /\ ev.res = "" /\ ev.x > 500
    /\ actors[ev.a].errors = 1 /\ actors[ev.a].tool_calls = 1
    /\ Len(actors[ev.a].inbox) = 1 /\ actors[ev.a].inbox[1].content[2] = 500

(* ----------------------------- stop_child ----------------------------- *)
\* a direct call of Orchestrator.stop_child(actor_id) from outside the actors
StopChildCall(actor_id) ==
    /\ cpu = None
    /\ actors' = StopChild(actors, actor_id)
    /\ ev' = Event("stop_child()", None, actor_id, NoRid, "", None)
    /\ UNCHANGED <<pc, todo, wait, main_id, comms_id, current_actor, sleep_events,
                   main_inbox, sink, hist, shutting_down, started, now, cpu, down,
                   corrVars, tools>>

(* --------------------- specification: stop_child ---------------------- *)
\* registry size explored by the stop_child specification
StopMaxActors == 3

\* what a completion of Main may hold in this specification (the other
\* actors are stopped and spawned, their loops are not followed)
StopEntries == {Raw("stop_child", i, NoRid, NoText, TRUE) : i \in Ids \cup {Ghost}}

NextStop ==
    \/ \E wc \in BOOLEAN : Start(wc)
    \/ Len(actors) < StopMaxActors /\ RequestSpawn(main_id)
    \/ \E t \in Ids \cup {None, Ghost} : StopChildCall(t)
    \/ main_id # None /\ LoopHead(main_id)
    \/ main_id # None /\ BuildPrompt(main_id)
    \/ \E raw \in Completions(StopEntries, 1) : main_id # None /\ LlmReturn(main_id, raw)
    \/ main_id # None /\ DoStopChild(main_id)

SpecStop == Init /\ [][NextStop]_vars

(* ------------------------- claims: stop_child ------------------------- *)
\* the actor record apart from its running flag
ButRunning(actor) == [actor EXCEPT !.running = TRUE]

\* C26: stop_child(id) sets running = false on the actor with that id when it
\* is registered and not immortal, and is a no-op (no state change, no error)
\* when the id is unknown or names an immortal actor; in every case no other
\* actor changes.  (When an actor dispatches it as a stop_child action, that
\* actor's own step bookkeeping is the dispatch's, not stop_child's.)
C26_StopChildFrame ==
    [][ev'.op \in {"stop_child()", "stop_child"} =>
        LET id == ev'.b
            a == ev'.a
            stops == id \in Ids /\ ~actors[id].immortal
        IN  /\ ev'.res = ""
            /\ DOMAIN actors' = Ids
            /\ \A i \in Ids \ {id, a} : actors'[i] = actors[i]
            /\ stops => ~actors'[id].running
            /\ (stops /\ id # a) => ButRunning(actors'[id]) = ButRunning(actors[id])
            /\ (id \in Ids /\ ~stops) => actors'[id].running = actors[id].running
            /\ (id \in Ids /\ ~stops /\ id # a) => actors'[id] = actors[id]
            /\ (a \in Ids /\ id # a) => actors'[a].running = actors[a].running
            /\ (ev'.op = "stop_child()" /\ ~stops) =>
                    UNCHANGED <<actors, pc, todo, wait, main_id, comms_id,
                                current_actor, pending_replies, futures, waiters,
                                sleep_events, main_inbox, sink, hist, shutting_down,
                                started, now, cpu, down>>
            /\ ev'.op = "stop_child()" => UNCHANGED <<pc, todo, main_id, comms_id>>]_vars

\* stop_child was called on the only sub, which no spawn has evicted, and the
\* sub is flagged not running while Main and Comms run
C26_Witness ==
    /\ ev.op = "stop_child()" /\ ev.b = 3 /\ Len(actors) = 3
    /\ ~actors[3].immortal /\ ~actors[3].running
    /\ actors[1].running /\ actors[2].running /\ actors[2].immortal

(* ------------------------------ comms_send ---------------------------- *)
\* comms_send(text): if not self.comms: return; await self.comms.inbox.put(text)
CommsSend(text) ==
    /\ cpu = None
    /\ Len(hist.sent) < MaxInjections
    /\ IF comms_id = None
       THEN UNCHANGED <<actors, hist>>
       ELSE /\ actors' = Delivered(actors, comms_id, text)
            /\ hist' = [hist EXCEPT !.sent = Append(@, text)]
    /\ ev' = EventT("comms_send", None, comms_id, NoRid, "", None, text)
    /\ UNCHANGED <<pc, todo, wait, main_id, comms_id, current_actor, sleep_events,
                   main_inbox, sink, shutting_down, started, now, cpu, down,
                   corrVars, tools>>

(* ------------------ specification: Comms forwarding ------------------- *)
\* shutdown() is not called; the Comms actor is followed for MaxImmortalSteps
\* iterations, so a message is sent while it still has one to make
NextComms ==
    \/ \E wc \in BOOLEAN : Start(wc)
    \/ \E a \in Ids : LoopHead(a)
    \/ \E a \in Ids : CommsForward(a)
    \/ \E text \in AwaitTexts :
            /\ comms_id # None => actors[comms_id].step < MaxImmortalSteps
            /\ CommsSend(text)
    \/ SinkPump

SpecComms == Init /\ [][NextComms]_vars

\* every task that is ready runs: the actors' loops and the sink pump
SpecCommsLive ==
    /\ SpecComms
    /\ WF_vars(\E a \in Ids : LoopHead(a))
    /\ WF_vars(\E a \in Ids : CommsForward(a))
    /\ WF_vars(SinkPump)

(* ---------------------- claims: Comms forwarding ---------------------- *)
\* the mailbox of the Comms actor
CommsInbox == IF comms_id = None THEN <<>> ELSE actors[comms_id].inbox

\* the injection events that carry the given texts from the Comms actor
AsInjections(texts) ==
    [k \in DOMAIN texts |-> [from_id |-> comms_id, content |-> <<"[user]", texts[k]>>]]

\* C27: while shutdown() is not called, every message enqueued into the Comms
\* actor's mailbox by comms_send is eventually forwarded as exactly one
\* injection event with from_id = the Comms id, every enqueued injection event
\* is delivered to the on_injection sink exactly once, and the events reach
\* the sink in the order they were enqueued.  (The sink, on_injection, is
\* taken to return.)
C27_CommsForwardedOnceInOrder ==
    /\ [](AsInjections(hist.sent) = hist.injected \o AsInjections(CommsInbox))
    /\ [](hist.injected = sink \o main_inbox)
    /\ \A n \in 1..MaxInjections :
            (Len(hist.sent) >= n) ~> (Len(sink) >= n /\ sink[n] = AsInjections(hist.sent)[n])

\* two messages were in the mailbox together, and the sink has them in order
C27_Witness ==
    /\ hist.sent = <<"t2", "t1">>
    /\ sink = AsInjections(hist.sent)
    /\ actors[comms_id].step = 1
    /\ main_inbox = <<>>

(* -------------------- specification: mailbox drains ------------------- *)
\* messages arrive in the mailboxes of Main (model-driven, by route_incoming)
\* and Comms (forwarding, by comms_send) while their loops run; Main's
\* completions hold no action
NextDrain ==
    \/ Start(TRUE)
    \/ \E a \in Ids : LoopHead(a)
    \/ \E a \in Ids : BuildPrompt(a)
    \/ \E a \in Ids : CommsForward(a)
    \/ \E a \in Ids : LlmReturn(a, <<>>)
    \/ \E c \in AwaitTexts :
            RouteIncomingCall(main_id, Payload(Tester, c, NoRid, NoRid))
    \/ \E text \in AwaitTexts : CommsSend(text)

SpecDrain == Init /\ [][NextDrain]_vars

(* ----------------------- claims: mailbox drains ----------------------- *)
\* s is an initial part of t
IsPrefix(s, t) == Len(s) <= Len(t) /\ SubSeq(t, 1, Len(s)) = s

\* C28: messages enqueued into one actor's mailbox are drained by that actor's
\* loop in enqueue order; each message appears in exactly one drain (never
\* duplicated, never skipped), and a drain empties the mailbox without
\* suspending the actor: a drain of actor a takes the whole mailbox of a as it
\* is, in one step, and no other step removes or reorders a message.
C28_DrainTakesMailboxInOrder ==
    [][\A a \in Ids :
        IF ev'.op = "drain" /\ ev'.a = a
        THEN /\ ev'.raw = actors[a].inbox
             /\ actors'[a].inbox = <<>>
             /\ pc[a] = "delay1" /\ pc'[a] \in {"llm", "delay2"}
        ELSE IsPrefix(actors[a].inbox, actors'[a].inbox)]_vars

\* a drain has taken two different messages that were in the mailbox together
C28_Witness ==
    /\ ev.op = "drain" /\ ev.a = comms_id /\ ev.raw = <<"t2", "t1">>
    /\ actors[comms_id].inbox = <<>>
    /\ actors[main_id].inbox # <<>>

(* ------------- specification: the capability-layer ask_user ----------- *)
\* the handler is called on an actor (as test_ask_user does), user messages and
\* routed replies arrive
NextAsk ==
    \/ Start(TRUE)
    \/ \E a \in Ids : HandleAskUser(a, "r1", "t1")
    \/ \E c \in AwaitTexts, r \in {"r1", NoRid} : OnUserMessageCall(c, r)
    \/ \E t \in Ids, c \in AwaitTexts :
            RouteIncomingCall(t, Payload(Tester, c, NoRid, "r1"))
    \/ \E w \in DOMAIN waiters : WaiterResume(w)

SpecAsk == Init /\ [][NextAsk]_vars

(* ------------------ claims: the capability-layer ask_user ------------- *)
\* the handler surfaces its question once, in the step that suspends it on the
\* future of its correlation id
AskSurfaces ==
    ev'.op = "ask_user()" =>
        /\ ev'.text = "t1"
        /\ waiters' = Append(waiters, [kind |-> "ask_user", rid |-> ev'.rid,
                                       fut |-> ev'.x, actor |-> ev'.a, to |-> None])
        /\ pending_replies'[ev'.rid] = ev'.x
        /\ futures'[ev'.x].state = "pending"
        /\ actors' = actors

\* a completing handler awaited a future that is done, and puts exactly the
\* line "[reply cid:<id>] <text>" of that future's payload into its caller's
\* mailbox
AskCompletes ==
    (ev'.op = "returned" /\ ev'.res = "ask_user") =>
        /\ futures[ev'.x].state = "done"
        /\ futures[ev'.x].rid = ev'.rid
        /\ ev'.text = futures[ev'.x].result.content
        /\ actors'[ev'.a].inbox =
                Append(actors[ev'.a].inbox,
                       [tag |-> "reply cid", from |-> None, rid |-> ev'.rid,
                        content |-> ev'.text])
        /\ \A i \in Ids \ {ev'.a} : actors'[i] = actors[i]
        /\ \E w \in DOMAIN waiters :
                /\ waiters[w].kind = "ask_user" /\ waiters[w].fut = ev'.x
                /\ waiters' = Without(waiters, w)

\* C29 as stated: the capability-layer ask_user handler surfaces the question
\* exactly once, does not complete before on_user_message is called with the
\* same correlation id, and on that reply puts exactly one line
\* "[reply cid:<id>] <text>" into the caller's mailbox and completes.
C29_AskCompletesOnUserMessage ==
    [][AskSurfaces /\ AskCompletes /\ SetOnce
       /\ ResolvedOnlyBy({"on_user_message", "user_reply"})]_vars

\* C29 amended: the handler surfaces the question exactly once, does not
\* complete before on_user_message is called with the same correlation id or
\* route_incoming is called with reply_to equal to it, and on the first such
\* call puts exactly one line "[reply cid:<id>] <text>" with that call's text
\* into the caller's mailbox and completes.
C29_AskCompletesOnResolution ==
    [][AskSurfaces /\ AskCompletes /\ SetOnce /\ ResolvedOnlyBy(ResolveOps)]_vars

\* the handler called on Comms completed on the user's reply: its line is in
\* the mailbox of Comms, the user's line in Main's
C29_Witness ==
    /\ ev.op = "returned" /\ ev.res = "ask_user" /\ ev.a = comms_id /\ ev.text = "t2"
    /\ futures[ev.x].result = Payload(User, "t2", NoRid, "r1")
    /\ actors[comms_id].inbox = <<AskLine("r1", "t2")>>
    /\ actors[main_id].inbox = <<Line("USER replied cid", User, "r1", "t2")>>
    /\ waiters = <<>>

(* --------------- specification: the ask_user action ------------------- *)
\* an ask_user action with id "r1", the user_reply action that answers it
AskEntries ==
    {Raw("ask_user", None, "r1", "t1", TRUE), Raw("user_reply", None, "r1", "t2", TRUE)}

\* Main dispatches ask_user and user_reply actions; a dashboard calls
\* on_user_message with the id or with none
NextAskAct ==
    \/ Start(FALSE)
    \/ \E a \in Ids : LoopHead(a)
    \/ \E a \in Ids : BuildPrompt(a)
    \/ \E a \in Ids : \E raw \in Completions(AskEntries, MaxActions) : LlmReturn(a, raw)
    \/ \E a \in Ids : DoAskUser(a)
    \/ \E a \in Ids : DoUserReply(a)
    \/ \E c \in AwaitTexts, r \in {"r1", NoRid} : OnUserMessageCall(c, r)

SpecAskAct == Init /\ [][NextAskAct]_vars

(* -------------------- claim: the ask_user action ---------------------- *)
\* the id of this step's reply was asked by a dispatched ask_user action and
\* no future of that id has been resolved
AnswersAsk ==
    /\ ev'.op \in {"user_reply", "on_user_message"}
    /\ ev'.rid \in hist.asked
    /\ \A f \in DOMAIN futures : futures[f].rid = ev'.rid => futures[f].state # "done"

\* C30: a user_reply action (or on_user_message) whose in_reply_to equals the
\* id of an ask_user action that a model-driven actor dispatched earlier
\* resolves that pending ask and consumes its correlation id, and is not
\* handled as an unsolicited user message (the line "[USER] text" in Main's
\* mailbox and Main's wake signal).
C30_ReplyResolvesDispatchedAsk ==
    [][AnswersAsk =>
        /\ \E f \in DOMAIN futures :
                /\ futures[f].rid = ev'.rid
                /\ futures[f].state = "pending" /\ futures'[f].state = "done"
        /\ pending_replies'[ev'.rid] = None
        /\ \A k \in DOMAIN actors'[main_id].inbox :
                k > Len(actors[main_id].inbox) => actors'[main_id].inbox[k].tag # "USER"]_vars

(* ------------------ the capability-layer sleep handler ---------------- *)
\* _handle_sleep(monologue, model) called on actor a, seconds > 0:
\* target = model.target_id or monologue.state.id, then
\* sleep_with_early_wake(target, seconds) up to its await
HandleSleep(a, target_id) ==
    /\ cpu = None
    /\ started
    /\ Len(waiters) < MaxWaiters
    /\ LET target == IF target_id # None THEN target_id ELSE a
       IN  /\ sleep_events' = Cleared(target)
           /\ waiters' = Append(Settled(waiters, target),
                                [Sleeper(target, Cleared(target)[target])
                                    EXCEPT !.actor = a, !.kind = "sleep()"])
           /\ ev' = Event("sleep()", a, target, NoRid, "", target_id)
    /\ UNCHANGED <<down, actors, pc, todo, wait, main_id, comms_id, current_actor,
                   pending_replies, futures, main_inbox, sink, hist, shutting_down,
                   started, now, cpu, tools>>

\* the handler's sleep_with_early_wake returns, woken or timed out
HandleSleepDone(w) ==
    /\ cpu = None
    /\ waiters[w].kind = "sleep()"
    /\ waiters' = Without(waiters, w)
    /\ ev' = Event("slept", waiters[w].actor, waiters[w].to, NoRid,
                   IF Woken(waiters, sleep_events, w) THEN "true" ELSE "false", None)
    /\ UNCHANGED <<down, actors, pc, todo, wait, main_id, comms_id, current_actor,
                   pending_replies, futures, sleep_events, main_inbox, sink, hist,
                   shutting_down, started, now, cpu, tools>>

(* ------------- specification: the capability-layer sleep -------------- *)
NapMaxActors == 3

\* Main and its subs call the handler with and without a target; messages
\* set wake signals
NextNap ==
    \/ Start(FALSE)
    \/ Len(actors) < NapMaxActors /\ RequestSpawn(main_id)
    \/ \E a \in Ids, t \in Ids \cup {None} : HandleSleep(a, t)
    \/ \E t \in Ids : NotifyCall(t)
    \/ \E w \in DOMAIN waiters : HandleSleepDone(w)

SpecNap == Init /\ [][NextNap]_vars

(* ------------- claim: the capability-layer sleep ---------------------- *)
\* C31: the capability-layer sleep handler waits on the caller's own wake
\* signal unless the caller is Main and supplies a target: a sub-role caller
\* that supplies a target_id still sleeps on, and clears, only its own wake
\* signal.
C31_SubSleepsOnOwnSignal ==
    [][(ev'.op = "sleep()" /\ (ev'.a # main_id \/ ev'.x = None)) =>
        /\ waiters'[Len(waiters')].to = ev'.a
        /\ \A t \in Ids \ {ev'.a} : sleep_events'[t] = sleep_events[t]]_vars

(* --------------------------- the Tool Registry ------------------------ *)
\* the values register is called with: a name ("" is the empty name), a
\* handler ("" is an object that is not callable) and a model ("" is anything
\* that is not a BaseModel subclass)
NameInputs == ToolNames \cup {""}
HandlerInputs == {"h1", "h2", ""}
ModelInputs == {"m1", "m2", ""}

\* a ToolSpec
ToolSpec(name, handler, model) == [name |-> name, handler |-> handler, model |-> model]

\* register without the test for an already registered name
RegisterErrorAnyName(reg, name, fn, model) ==
    IF name = "" THEN "Tool name must be non-empty str"
    ELSE IF model = "" THEN "Tool must declare a Pydantic BaseModel via model="
    ELSE IF fn = "" THEN "Tool handler must be callable"
    ELSE ""

\* register: the ToolError it raises, "" when it raises none; the tests are made
\* in this order and _ensure_async raises before self._tools is written
RegisterError(reg, name, fn, model) ==
    IF name = "" THEN "Tool name must be non-empty str"
    ELSE IF reg[name] # NoTool THEN "Tool already registered"
    ELSE IF model = "" THEN "Tool must declare a Pydantic BaseModel via model="
    ELSE IF fn = "" THEN "Tool handler must be callable"
    ELSE ""

\* the registry after register(name, fn, model=model): _tools, _models and
\* _meta get the name's entry together
Bound(reg, name, fn, model) ==
    IF RegisterError(reg, name, fn, model) = ""
    THEN [reg EXCEPT ![name] = [handler |-> fn, model |-> model]]
    ELSE reg

\* every action of the registry leaves the orchestrator alone
RegistryOnly ==
    UNCHANGED <<actors, pc, todo, wait, main_id, comms_id, current_actor,
                pending_replies, futures, waiters, sleep_events, main_inbox, sink,
                hist, shutting_down, started, now, cpu, down>>

\* a call of register(name, fn, model=model)
Register(name, fn, model) ==
    /\ tools' = Bound(tools, name, fn, model)
    /\ ev' = [EventT("register", None, None, NoRid,
                     RegisterError(tools, name, fn, model), None, name)
                EXCEPT !.raw = <<ToolSpec(name, fn, model)>>]
    /\ RegistryOnly

\* register_spec: a ToolError is swallowed when its text holds "already
\* registered", and raised again as "Failed to register ..." otherwise
SpecError(reg, spec) ==
    IF RegisterError(reg, spec.name, spec.handler, spec.model)
            \in {"", "Tool already registered"}
    THEN "" ELSE "Failed to register"

\* a call of register_spec(spec)
RegisterSpec(spec) ==
    /\ tools' = Bound(tools, spec.name, spec.handler, spec.model)
    /\ ev' = [EventT("register_spec", None, None, NoRid, SpecError(tools, spec),
                     None, spec.name)
                EXCEPT !.raw = <<spec>>]
    /\ RegistryOnly

\* autodiscover_tools: register_spec for each ToolSpec of each module, in
\* order, up to the first that raises
RECURSIVE Discovered(_, _)
Discovered(reg, specs) ==
    IF specs = <<>> \/ SpecError(reg, Head(specs)) # "" THEN reg
    ELSE Discovered(Bound(reg, Head(specs).name, Head(specs).handler, Head(specs).model),
                    Tail(specs))

\* the error autodiscover_tools ends with
RECURSIVE DiscoverError(_, _)
DiscoverError(reg, specs) ==
    IF specs = <<>> THEN ""
    ELSE IF SpecError(reg, Head(specs)) # "" THEN SpecError(reg, Head(specs))
    ELSE DiscoverError(Bound(reg, Head(specs).name, Head(specs).handler,
                             Head(specs).model), Tail(specs))

\* a call of autodiscover_tools over a package whose modules hold these specs
Autodiscover(specs) ==
    /\ tools' = Discovered(tools, specs)
    /\ ev' = [EventT("autodiscover", None, None, NoRid, DiscoverError(tools, specs),
                     None, NoText)
                EXCEPT !.raw = specs]
    /\ RegistryOnly

(* ------------------ specification: the Tool Registry ------------------ *)
MaxSpecs == 2

\* the ToolSpec objects the modules of a package may hold
SpecInputs ==
    {ToolSpec("a", "h1", "m1"), ToolSpec("a", "h2", "m2"), ToolSpec("b", "h2", "m1"),
     ToolSpec("b", "h1", ""), ToolSpec("", "h1", "m1")}

NextRegistry ==
    \/ \E n \in NameInputs, h \in HandlerInputs, m \in ModelInputs : Register(n, h, m)
    \/ \E spec \in SpecInputs : RegisterSpec(spec)
    \/ \E specs \in Completions(SpecInputs, MaxSpecs) : Autodiscover(specs)

SpecRegistry == Init /\ [][NextRegistry]_vars

(* ---------------------- claim: the Tool Registry ---------------------- *)
\* the ToolSpec a registration step was called with last (for register and
\* register_spec, the only one)
Given == ev'.raw[Len(ev'.raw)]

\* C32: a name's binding is write-once.  register with an empty name, an
\* already registered name or without a schema raises and leaves the registry
\* unchanged; register_spec and discovery of an already registered name raise
\* nothing and change nothing; no registration changes a binding that exists,
\* and a name gets a binding only from a call that names it with a schema, and
\* then that call's handler and schema - so each name keeps the handler and
\* schema of its first successful registration.
C32_BindingIsWriteOnce ==
    [][/\ \A n \in ToolNames : tools[n] # NoTool => tools'[n] = tools[n]
       /\ \A n \in ToolNames :
            (tools[n] = NoTool /\ tools'[n] # NoTool) =>
                \E k \in DOMAIN ev'.raw :
                    /\ ev'.raw[k].name = n /\ ev'.raw[k].model # ""
                    /\ tools'[n] = [handler |-> ev'.raw[k].handler,
                                    model |-> ev'.raw[k].model]
                    /\ \A j \in 1..(k - 1) : ev'.raw[j].name # n
       /\ (ev'.op = "register"
            /\ (Given.name = "" \/ tools[Given.name] # NoTool \/ Given.model = "")) =>
                (ev'.res # "" /\ tools' = tools)
       /\ (ev'.op = "register_spec" /\ Given.name # "" /\ tools[Given.name] # NoTool) =>
                (ev'.res = "" /\ tools' = tools)
       /\ (ev'.op = "autodiscover"
            /\ \A k \in DOMAIN ev'.raw :
                    ev'.raw[k].name # "" /\ tools[ev'.raw[k].name] # NoTool) =>
                (ev'.res = "" /\ tools' = tools)]_vars

\* "a" is bound to its first registration; a later register of "a" with
\* another handler and schema has just raised
C32_Witness ==
    /\ ev.op = "register" /\ ev.text = "a" /\ ev.res = "Tool already registered"
    /\ ev.raw = <<ToolSpec("a", "h2", "m2")>>
    /\ tools["a"] = [handler |-> "h1", model |-> "m1"]
    /\ tools["b"] # NoTool

(* --------------------- specification: the soft stop ------------------- *)
SoftMaxActors == 3

\* what a sub's completion may hold in this specification
SoftEntries == {Raw("stop_self", None, NoRid, NoText, TRUE)}

\* the run loops of the subs, which dispatch stop_self; request_spawn (which
\* evicts), stop_child and kill_with_policy are called on them with no current
\* actor
NextSoft ==
    \/ Start(FALSE)
    \/ Len(actors) < SoftMaxActors /\ RequestSpawn(main_id)
    \/ \E t \in Ids \ {main_id} : StopChildCall(t)
    \/ \E t \in Ids \ {main_id} : KillCall(None, t)
    \/ \E a \in Ids \ {main_id} : LoopHead(a)
    \/ \E a \in Ids \ {main_id} : BuildPrompt(a)
    \/ \E a \in Ids \ {main_id} : \E raw \in Completions(SoftEntries, 1) :
            LlmReturn(a, raw)
    \/ \E a \in Ids \ {main_id} : DoStopSelf(a)

\* every task that can run is eventually run, and a completion request returns
SpecSoft ==
    /\ Init /\ [][NextSoft]_vars
    /\ WF_vars(\E a \in Ids \ {main_id} : LoopHead(a) \/ BuildPrompt(a) \/ DoStopSelf(a))
    /\ WF_vars(\E a \in Ids \ {main_id} : LlmReturn(a, <<>>))

(* ------------------------ claim: the soft stop ------------------------ *)
\* the operations that clear a running flag other than the loop's own exit
StopOps == {"stop_self", "stop_child", "kill", "request_spawn"}

\* the actor's flag is cleared
Flagged(a) == a \in Ids /\ ~actors[a].running

\* what a loop at this position still does in its current iteration: it issues
\* the completion request when it is in the leading delay, and increments the
\* step counter when it is anywhere in the iteration
RequestsLeft(pos) == IF pos = "delay1" THEN 1 ELSE 0
StepsLeft(pos) == IF pos \in {"delay1", "llm", "dispatch", "sleep", "idle"} THEN 1 ELSE 0

\* this step issues a completion request of actor a
Issues(a) == pc[a] # "llm" /\ pc'[a] = "llm"

C34_KillNoneByMainIsNoOp ==
    [][(IsKill /\ ev'.b = None /\ ev'.a \in {None, main_id})
        => Running(actors') = Running(actors)]_vars

(* ------------------- claim: immortal actors keep running -------------- *)
\* C35: between start() and shutdown(), Main and Comms keep running = true and
\* their run loops never exit: no dispatched action (stop_self, stop_child, a
\* spawn that triggers eviction) and no kill_with_policy call sets the running
\* flag of an immortal actor to false, so the while test of an immortal
\* actor's loop never fails.
C35_ImmortalsKeepRunning ==
    [][\A a \in Ids :
        (actors[a].immortal /\ ~shutting_down /\ ~shutting_down') =>
            /\ actors[a].running => actors'[a].running
            /\ (ev'.op = "task" /\ pc[a] # "done") => pc'[a] # "done"]_vars

(* ------------- specification: stop_child among siblings --------------- *)
SiblingMaxActors == 3

\* a sub's completion names any other actor in a stop_child action
SiblingEntries(a) == {Raw("stop_child", i, NoRid, NoText, TRUE) : i \in Ids \ {a}}

\* Main's subs run their loops and dispatch stop_child actions
NextSibling ==
    \/ Start(FALSE)
    \/ Len(actors) < SiblingMaxActors /\ RequestSpawn(main_id)
    \/ \E a \in Ids \ {main_id} : LoopHead(a)
    \/ \E a \in Ids \ {main_id} : BuildPrompt(a)
    \/ \E a \in Ids \ {main_id} : \E raw \in Completions(SiblingEntries(a), 1) :
            LlmReturn(a, raw)
    \/ \E a \in Ids \ {main_id} : DoStopChild(a)

SpecSibling == Init /\ [][NextSibling]_vars

(* ------------------ claim: stop_child and the child set --------------- *)
\* C36: a stop_child action stops only an actor that is in the dispatching
\* actor's child set: a stop_child action naming the id of any other actor
\* (a sibling sub, another actor's child) changes no running flag.
C36_StopChildOnlyOwnChildren ==
    [][(ev'.op = "stop_child" /\ ev'.b \notin actors[ev'.a].children)
        => Running(actors') = Running(actors)]_vars

(* ---------------- claim: the registry after shutdown() ---------------- *)
\* C37: when shutdown() returns, every actor in the registry has running =
\* false - including an actor spawned by an action that another actor
\* dispatched during shutdown's yield, between the flagging of all actors and
\* the cancellation of the tasks.
C37_AllStoppedWhenShutdownReturns ==
    ev.op = "shutdown returns" => \A a \in Ids : ~actors[a].running

(* --------------- the capability-layer kill_monologue handler ---------- *)
\* _handle_kill_monologue(monologue, model) run for actor a:
\* kill_with_policy(model.target_id), which takes its caller from
\* current_actor; ev.x is the caller id the policy check used
HandleKillMonologue(a, target_id) ==
    /\ cpu = None
    /\ started
    /\ actors' = KillActors(current_actor, target_id)
    /\ ev' = Event("kill_monologue()", a, target_id, NoRid,
                   IF KillError(current_actor, target_id) = ""
                   THEN "ok" ELSE KillError(current_actor, target_id),
                   CallerId(current_actor))
    /\ UNCHANGED <<down, pc, todo, wait, main_id, comms_id, current_actor, sleep_events,
                   main_inbox, sink, hist, shutting_down, started, now, cpu, corrVars,
                   tools>>

(* -------------- specification: the caller of a kill ------------------- *)
WhoMaxActors == 2

\* what a completion may hold in this specification
WhoEntries == {Raw("sleep", None, NoRid, NoText, TRUE)}

\* the actors run their loops and dispatch sleep actions; the kill_monologue
\* handler is run for an actor, which parse_actions and _dispatch_actions
\* never do (the capability tags are not dispatched)
NextWho ==
    \/ Start(FALSE)
    \/ Len(actors) < WhoMaxActors /\ RequestSpawn(main_id)
    \/ \E a \in Ids : LoopHead(a)
    \/ \E a \in Ids : BuildPrompt(a)
    \/ \E a \in Ids : \E raw \in Completions(WhoEntries, 1) :
            Len(waiters) + NumSleeps(raw) <= MaxWaiters /\ LlmReturn(a, raw)
    \/ \E a \in Ids : DoSleep(a)
    \/ \E a \in Ids : ActorSleepDone(a)
    \/ \E a \in Ids, t \in Ids \cup {None} : HandleKillMonologue(a, t)

SpecWho == Init /\ [][NextWho]_vars

BudgetMaxActors == 3

\* what a sub's completion may hold in this specification: a pause of one
\* second or of Infinity seconds, interruptible (sleep) or not (idle), a tool
\* call, a message to an unknown actor, and a stop_self
BudgetEntries ==
    {Raw(t, s, NoRid, NoText, TRUE) : t \in {"idle", "sleep"}, s \in {1, Infinity}}
        \cup {ToolEntry("test.echo", TRUE), Raw("route_message", Ghost, NoRid, "t1", TRUE),
              Raw("stop_self", None, NoRid, NoText, TRUE)}

\* the run loops of the subs and the actions they dispatch; nothing is shut
\* down
NextBudget ==
    \/ Start(FALSE)
    \/ Len(actors) < BudgetMaxActors /\ RequestSpawn(main_id)
    \/ \E a \in Ids \ {main_id} : LoopHead(a)
    \/ \E a \in Ids \ {main_id} : BuildPrompt(a)
    \/ \E a \in Ids \ {main_id} : \E raw \in Completions(BudgetEntries, 1) :
            Len(waiters) + NumSleeps(raw) <= MaxWaiters /\ LlmReturn(a, raw)
    \/ \E a \in Ids \ {main_id} : DoIdle(a)
    \/ \E a \in Ids \ {main_id} : IdleDone(a)
    \/ \E a \in Ids \ {main_id} : DoSleep(a)
    \/ \E a \in Ids \ {main_id} : ActorSleepDone(a)
    \/ \E a \in Ids \ {main_id} : DoTool(a, Returned(1))
    \/ \E a \in Ids \ {main_id} : DoRouteMessage(a)
    \/ \E a \in Ids \ {main_id} : DoStopSelf(a)

\* every task that can run is eventually run, every completion request
\* returns, every timer that can fire fires, every tool call returns
SpecBudget ==
    /\ Init /\ [][NextBudget]_vars
    /\ WF_vars(\E a \in Ids \ {main_id} : LoopHead(a) \/ BuildPrompt(a))
    /\ WF_vars(\E a \in Ids \ {main_id} : \E raw \in Completions(BudgetEntries, 1) :
                    Len(waiters) + NumSleeps(raw) <= MaxWaiters /\ LlmReturn(a, raw))
    /\ WF_vars(\E a \in Ids \ {main_id} :
                    \/ DoIdle(a) \/ IdleDone(a) \/ DoSleep(a) \/ ActorSleepDone(a)
                    \/ DoTool(a, Returned(1)) \/ DoRouteMessage(a) \/ DoStopSelf(a))

(* ---------------------- claim: the subs run out ----------------------- *)
\* C39: without any shutdown, every non-immortal actor eventually reaches
\* running = false after at most max_sub_steps loop iterations, under fair
\* scheduling and provided each completion request and each external callback
\* returns: no action an actor can dispatch from its loop blocks that loop
\* forever.
C39_SubsRunOut ==
    /\ [](\A a \in Ids : ~actors[a].immortal => actors[a].step <= MaxSubSteps)
    /\ <>[](\A a \in Ids : ~actors[a].immortal => ~actors[a].running)

(* ------------------- claim: an unknown route target ------------------- *)
\* C40: route_incoming to a target id that is not in the registry fails
\* without side effects: no pending correlation future is resolved or removed
\* from the pending-reply map, no mailbox changes, and no wake signal is set.
C40_UnknownTargetNoEffect ==
    [][(ev'.op = "route_incoming" /\ ev'.b \notin Ids) =>
        /\ ev'.res = "KeyError"
        /\ pending_replies' = pending_replies
        /\ futures' = futures
        /\ \A a \in Ids : actors'[a].inbox = actors[a].inbox
        /\ sleep_events' = sleep_events]_vars

====
